---- MODULE Spec2Model ----
(***************************************************************************)
(* Routing and middleware dispatch of express6: Layer (router/layer.ts),   *)
(* Route (router/route.ts) and the Application front (application.ts).     *)
(*                                                                         *)
(* A handler is user code: what it does when it is invoked (call the       *)
(* continuation with some value, throw, return a promise that rejects or   *)
(* resolves, answer without continuing) is an input, chosen when the       *)
(* handler completes.  Each invoked handler completes in exactly one way   *)
(* (the handler contract of section 5 of the specification); the route     *)
(* table is not changed while a request is being dispatched (section 3).   *)
(* The done callback handed to Route.dispatch returns normally.            *)
(***************************************************************************)
EXTENDS Integers, Sequences, FiniteSets, TLC

\* ------------------------------------------------------------------ bounds
MaxStack == 3        \* layers in one Route's stack
MaxArgs == 2         \* handler arguments of one registration call
MaxRoutes == 2       \* layers on one application's Router
MaxApps == 3         \* applications created with express()
MaxLayers == 4       \* layers on all Routers of a mount tree together
MaxSets == 2         \* settings set by calls of set(), all applications together
MaxSegs == 2         \* segments of a request path given to Layer.match
MaxCalls == 3        \* res.set / res.append calls on one response
MaxEvents == 4       \* file stream events delivered to one transfer

\* ------------------------------------------------------------------ values
\* JavaScript values that can travel through a continuation, a throw or a
\* promise rejection.  Undef and Zero are falsy, the others truthy.
Undef == "undefined"
Zero == "0"
SigRoute == "route"
SigRouter == "router"
Values == {Undef, Zero, SigRoute, SigRouter, "e1", "e2"}
RejectedPromise == "Error: Rejected promise"

Truthy(v) == v \notin {Undef, Zero}

\* request methods as the HTTP server delivers them, and the registration
\* methods of the `methods` package that the model uses
ReqMethods == {"GET", "HEAD", "POST", "DELETE"}
RouteVerbs == {"get", "head"}
AppVerbs == {"get", "post"}
\* the list of the `methods` package, in its order, cut down to the methods
\* of ReqMethods
Methods == <<"delete", "get", "head", "post">>

ToLowerCase(m) ==
  CASE m = "GET" -> "get"
    [] m = "HEAD" -> "head"
    [] m = "POST" -> "post"
    [] m = "DELETE" -> "delete"
    [] OTHER -> m

\* handler functions: a name and the declared parameter count (fn.length)
Fn(n, l) == [name |-> n, length |-> l]
NotAFunction == [name |-> "notfn", length |-> -1]
IsFunction(h) == h # NotAFunction
RouteHandlers == {Fn("h1", 3), Fn("eh", 4)}
AppHandlers == {Fn("h1", 3), Fn("h2", 3)}
Paths == {"/foo", "/bar"}
AppIds == 1..MaxApps

\* ------------------------------------------------------------------ state
VARIABLES
  routes,   \* the Route objects: [path, stack, methods]
  apps,     \* the applications: [parent, mountpath, settings, ...]
  router,   \* each application's root Router: [exists, stack of layers]
  req,      \* the request: [method, path, route]; app / resApp: the
            \* application whose prototype req / res carries
  d,        \* the closure of the running Route.dispatch
  h,        \* the closure of the running Router.handle
  hist,     \* what the request has seen so far
  twin,     \* the same request through the route whose throwing handlers
            \* are replaced by handlers that call next(e)
  appCalls, \* the registration calls made on the first application
  raised,    \* the exception the last API call threw
  matchLayer,   \* a Layer whose match() is called: [pattern, params, path, ...]
  res,   \* the response: [statusCode, headers, body, ended, ...]
  other   \* a second request through the same Route and both run alone: [ctx, solo1, solo2]

vars == <<routes, apps, router, req, d, h, hist, twin, appCalls, raised, matchLayer, res, other>>

NewRoute(path) == [path |-> path, stack |-> <<>>, methods |-> {}]
NewLayer(method, fn) == [method |-> method, handle |-> fn]

NoReq == [method |-> "", path |-> "", route |-> 0, app |-> 0,
   resApp |-> 0]
IdleD == [phase |-> "idle", route |-> 0, method |-> "", idx |-> 0,
          cur |-> 0, curMode |-> "", curErr |-> Undef, doneArgs |-> <<>>]
\* h.app: the application whose Router is walking; h.up: the suspended
\*   Router.handle closures of the mounting applications, outermost first;
\*   h.cur: the Router layer whose handler is running; h.made: the Routers
\*   that Express.handle created on the way
IdleH == [phase |-> "off", app |-> 0, idx |-> 0, stray |-> FALSE,
          up |-> <<>>, cur |-> 0, curMode |-> "", curErr |-> Undef,
          made |-> {}, doneArgs |-> <<>>]
\* hist.offered: the layers Route.dispatch called handle_request or
\*   handle_error on; hist.invoked: the handlers that were called, with the
\*   error each received; hist.continued: the layers whose continuation was
\*   called; hist.routeDone: the done calls of the Routes, each with the
\*   completion that led to it; hist.last: how the latest handler completed
\*   and what the continuation was called with (called = FALSE: it was not).
NoLast == [kind |-> "none", val |-> Undef, called |-> FALSE, arg |-> Undef,
           app |-> 0, route |-> 0, pos |-> 0]
EmptyHist == [offered |-> <<>>, invoked |-> <<>>, continued |-> <<>>,
              routeDone |-> <<>>, last |-> NoLast]

\* no second request: nothing in flight
IdleCtx == [d |-> IdleD, h |-> IdleH, req |-> NoReq, hist |-> EmptyHist]
NoOther == [ctx |-> IdleCtx, solo1 |-> IdleCtx, solo2 |-> IdleCtx]

\* ------------------------------------------------------------ registration
\* Route.all / Route.prototype[method]: one Layer per handler, in argument
\* order, until an argument is not a function (the call throws there and the
\* layers pushed before it stay).
RECURSIVE FirstBad(_, _)
FirstBad(handles, i) ==
  IF i > Len(handles) THEN i
  ELSE IF ~IsFunction(handles[i]) THEN i
  ELSE FirstBad(handles, i + 1)

\* faulty variant: only the first handler of the call is registered
PushLayersFirstOnly(route, method, handles) ==
  LET k == IF FirstBad(handles, 1) > 1 THEN 2 ELSE 1
      added == [i \in 1..(k - 1) |-> NewLayer(method, handles[i])]
      name == IF method = Undef THEN "_all" ELSE method
  IN [route EXCEPT !.stack = @ \o added,
                   !.methods = IF k > 1 THEN @ \cup {name} ELSE @]

\* faulty variant: the new layers are put in front of the stack
PushLayersInFront(route, method, handles) ==
  LET k == FirstBad(handles, 1)
      added == [i \in 1..(k - 1) |-> NewLayer(method, handles[i])]
      name == IF method = Undef THEN "_all" ELSE method
  IN [route EXCEPT !.stack = added \o @,
                   !.methods = IF k > 1 THEN @ \cup {name} ELSE @]

PushLayers(route, method, handles) ==
  LET k == FirstBad(handles, 1)
      added == [i \in 1..(k - 1) |-> NewLayer(method, handles[i])]
      name == IF method = Undef THEN "_all" ELSE method
  IN [route EXCEPT !.stack = @ \o added,
                   !.methods = IF k > 1 THEN @ \cup {name} ELSE @]

AllThrows(handles) ==
  IF FirstBad(handles, 1) <= Len(handles) THEN "TypeError" ELSE "none"

VerbThrows(handles) ==
  IF FirstBad(handles, 1) <= Len(handles) THEN "Error" ELSE "none"

\* Route._handles_method
HandlesMethod(route, method) ==
  IF "_all" \in route.methods THEN TRUE
  ELSE LET name == ToLowerCase(method)
           name2 == IF name = "head" /\ "head" \notin route.methods
                    THEN "get" ELSE name
       IN name2 \in route.methods


\* --------------------------------------------------------------- Layer role
\* Layer.handle_error runs the handler only when it declares four parameters,
\* Layer.handle_request only when it declares at most three.
\* faulty variant: handle_error also runs handlers that declare three parameters
IsErrorHandlerLoose(fn) == fn.length >= 3
IsErrorHandler(fn) == fn.length = 4
\* faulty variant: every handler but the four-parameter one is run
IsRequestHandlerLoose(fn) == fn.length # 4
IsRequestHandler(fn) == ~(fn.length > 3)

\* what the layer passes to the continuation when the handler throws `v`
\* (catch (err) { next(err) }) and when the promise it returned rejects with
\* `v` (next(error || new Error('Rejected promise')))
\* `error` is the error handle_error was called with.
\* faulty variant: the catch clause drops the error; the catch clause of
\* handle_error passes on the error it was handling; the rejection value is
\* passed on as it is
RequestCatchArgDropped(v) == Undef
ErrorCatchArgStale(error, v) == error
RequestRejectArgRaw(v) == v
RequestCatchArg(v) == v
ErrorCatchArg(error, v) == v
RequestRejectArg(v) == IF Truthy(v) THEN v ELSE RejectedPromise
ErrorRejectArg(error, v) == IF Truthy(v) THEN v ELSE RejectedPromise

\* ---------------------------------------------------------- Route.dispatch
\* the layer is offered the request unless its method tag differs
\* faulty variant: the method tag is not looked at
EligibleAlways(layer, method) == TRUE
Eligible(layer, method) == ~(layer.method # Undef /\ layer.method # method)

\* faulty variant: 'router' is not told from an error
IsRouterSignalNever(err) == FALSE
\* faulty variant: 'route' is not told from an error
IsRouteSignalNever(err) == FALSE
IsRouteSignal(err) == Truthy(err) /\ err = SigRoute
IsRouterSignal(err) == Truthy(err) /\ err = SigRouter

\* faulty variant: HEAD is not aliased to GET
NormalizedMethodNoAlias(route, reqMethod) == ToLowerCase(reqMethod)

NormalizedMethod(route, reqMethod) ==
  LET method == ToLowerCase(reqMethod)
  IN IF method = "head" /\ "head" \notin route.methods THEN "get" ELSE method

\* A context c = [d, h, req, hist] is the part of the state one synchronous
\* chain of calls reads and writes.
RECURSIVE RouteNext(_, _)
RECURSIVE RouterNext(_, _)

\* faulty variant: done is called a second time
RouteDoneTwice(c, arg) ==
  LET c1 == [c EXCEPT !.d.phase = "done", !.d.cur = 0,
                      !.d.doneArgs = Append(Append(@, arg), arg),
                      !.hist.routeDone =
                         Append(@, [route |-> c.d.route, arg |-> arg,
                                    by |-> c.hist.last])]
  IN IF c.h.phase = "off" THEN c1 ELSE RouterNext(c1, arg)

\* done(arg): the callback handed to Route.dispatch.  Under a Router it is
\* the Router's continuation; for a Route used on its own it only records.
RouteDone(c, arg) ==
  LET c1 == [c EXCEPT !.d.phase = "done", !.d.cur = 0,
                      !.d.doneArgs = Append(@, arg),
                      !.hist.routeDone =
                         Append(@, [route |-> c.d.route, arg |-> arg,
                                    by |-> c.hist.last])]
  IN IF c.h.phase = "off" THEN c1 ELSE RouterNext(c1, arg)

\* fn(req, res, next) / fn(error, req, res, next) is called
Invoke(c, i, mode, err) ==
  [c EXCEPT !.d.phase = "running", !.d.cur = i, !.d.curMode = mode,
            !.d.curErr = err,
            !.hist.invoked =
               Append(@, [app |-> c.h.app, route |-> c.d.route, pos |-> i,
                          mode |-> mode, err |-> err])]

Offer(c, i) ==
  [c EXCEPT !.hist.offered = Append(@, [route |-> c.d.route, pos |-> i])]

Continued(c, i) ==
  [c EXCEPT !.hist.continued = Append(@, [route |-> c.d.route, pos |-> i])]

HandleError(c, i, error) ==
  LET fn == routes[c.d.route].stack[i].handle
  IN IF ~IsErrorHandler(fn) THEN RouteNext(Continued(c, i), error)
     ELSE Invoke(c, i, "error", error)

HandleRequest(c, i) ==
  LET fn == routes[c.d.route].stack[i].handle
  IN IF ~IsRequestHandler(fn) THEN RouteNext(Continued(c, i), Undef)
     ELSE Invoke(c, i, "request", Undef)

\* faulty variant: the continuation is called when the promise resolves
OnFulfilledContinues(c) == RouteNext(Continued(c, c.d.cur), Undef)

\* ret.then(null, ...): nothing is called when the promise resolves
OnFulfilled(c) == [c EXCEPT !.d.phase = "hung"]

\* function next(err) of Route.dispatch
RouteNext(c, err) ==
  IF IsRouteSignal(err) THEN RouteDone(c, Undef)
  ELSE IF IsRouterSignal(err) THEN RouteDone(c, err)
  ELSE LET i == c.d.idx + 1
           c1 == [c EXCEPT !.d.idx = i]
           stack == routes[c.d.route].stack
       IN IF i > Len(stack) THEN RouteDone(c1, err)
          ELSE IF ~Eligible(stack[i], c.d.method) THEN RouteNext(c1, err)
          ELSE IF Truthy(err) THEN HandleError(Offer(c1, i), i, err)
          ELSE HandleRequest(Offer(c1, i), i)

\* faulty variant: done() on an empty stack without the return
RouteDispatchNoReturn(c, r) ==
  LET route == routes[r]
      c0 == [c EXCEPT !.d = [IdleD EXCEPT !.phase = "walking", !.route = r]]
      c1 == IF Len(route.stack) = 0 THEN RouteDone(c0, Undef) ELSE c0
  IN RouteNext([c1 EXCEPT
                  !.d.method = NormalizedMethod(route, c.req.method),
                  !.req.route = r],
               Undef)

\* Route.dispatch(req, res, done) on route r
RouteDispatch(c, r) ==
  LET route == routes[r]
      c0 == [c EXCEPT !.d = [IdleD EXCEPT !.phase = "walking", !.route = r]]
  IN IF Len(route.stack) = 0 THEN RouteDone(c0, Undef)
     ELSE RouteNext([c0 EXCEPT
                       !.d.method = NormalizedMethod(route, c.req.method),
                       !.req.route = r],
                    Undef)

\* ----------------------------------------------------------- Router.handle
\* The layers of a Router's stack: a Route (Router.route), a plain handler
\* (Router.use) or a mounted application (Express.use: mounted_app).
RouteLayer(path, r) ==
  [kind |-> "route", path |-> path, route |-> r,
   handle |-> Fn("dispatch", 3), app |-> 0]
FnLayer(path, fn) ==
  [kind |-> "fn", path |-> path, route |-> 0, handle |-> fn, app |-> 0]
AppLayer(path, child) ==
  [kind |-> "app", path |-> path, route |-> 0,
   handle |-> Fn("mounted_app", 3), app |-> child]

PathMatches(pattern, path) == pattern = path

\* the routing path that is left once a Router.use layer consumed its prefix
NoPath == "<no match>"
Strip(prefix, path) ==
  CASE prefix = "/" -> path
    [] prefix = path -> "/"
    [] prefix = "/blog" /\ path = "/blog/foo" -> "/foo"
    [] OTHER -> NoPath

LayerMatches(layer, path) ==
  IF layer.kind = "route" THEN PathMatches(layer.path, path)
  ELSE Strip(layer.path, path) # NoPath

\* faulty variant: the error of the sub-application is not passed on
MountedAppCallbackDropsError(c, err) ==
  LET f == c.h.up[Len(c.h.up)]
  IN RouterNext([c EXCEPT !.h.up = SubSeq(@, 1, Len(@) - 1),
                          !.h.app = f.app, !.h.idx = f.idx,
                          !.req.path = f.path, !.req.app = f.reqApp,
                          !.req.resApp = f.reqApp],
                Undef)

\* faulty variant: the prototypes of the sub-application are left in place
MountedAppCallbackKeepsProto(c, err) ==
  LET f == c.h.up[Len(c.h.up)]
  IN RouterNext([c EXCEPT !.h.up = SubSeq(@, 1, Len(@) - 1),
                          !.h.app = f.app, !.h.idx = f.idx,
                          !.req.path = f.path],
                err)

\* mounted_app: the callback handed to the sub-application's handle restores
\* the request to the mounting application and calls next(err)
MountedAppCallback(c, err) ==
  LET f == c.h.up[Len(c.h.up)]
  IN RouterNext([c EXCEPT !.h.up = SubSeq(@, 1, Len(@) - 1),
                          !.h.app = f.app, !.h.idx = f.idx,
                          !.req.path = f.path, !.req.app = f.reqApp,
                          !.req.resApp = f.reqApp],
                err)

\* the finalizer of the outermost Express.handle
\* faulty variant: the finalizer runs twice
FinalizerTwice(c, arg) ==
  [c EXCEPT !.h.phase = "done", !.h.doneArgs = Append(Append(@, arg), arg)]

Finalizer(c, arg) ==
  [c EXCEPT !.h.phase = "done", !.h.doneArgs = Append(@, arg)]

\* the Router calls the done callback it was handed
RouterDone(c, arg) ==
  IF c.h.up = <<>> THEN Finalizer(c, arg) ELSE MountedAppCallback(c, arg)

\* mounted_app(req, res, next): child.handle(req, res, callback), that is
\* Express.handle of the sub-application, which walks its own Router
MountedApp(c, i) ==
  LET layer == router[c.h.app].stack[i]
  IN RouterNext(
       [c EXCEPT !.h.up = Append(@, [app |-> c.h.app, idx |-> c.h.idx,
                                     path |-> c.req.path,
                                     reqApp |-> c.req.app]),
                 !.h.app = layer.app, !.h.idx = 0,
                 !.h.made = @ \cup {layer.app},
                 !.req.path = Strip(layer.path, c.req.path),
                 !.req.app = layer.app, !.req.resApp = layer.app],
       Undef)

\* a handler registered with use() is called
RouterInvoke(c, i, mode, err) ==
  [c EXCEPT !.h.phase = "running", !.h.cur = i, !.h.curMode = mode,
            !.h.curErr = err,
            !.hist.invoked =
               Append(@, [app |-> c.h.app, route |-> 0, pos |-> i,
                          mode |-> mode, err |-> err])]

\* Layer.handle_error / Layer.handle_request on a layer of the Router
RouterHandleError(c, i, error) ==
  LET layer == router[c.h.app].stack[i]
  IN IF ~IsErrorHandler(layer.handle) THEN RouterNext(c, error)
     ELSE RouterInvoke(c, i, "error", error)

RouterHandleRequest(c, i) ==
  LET layer == router[c.h.app].stack[i]
  IN IF ~IsRequestHandler(layer.handle) THEN RouterNext(c, Undef)
     ELSE IF layer.kind = "app" THEN MountedApp(c, i)
     ELSE RouterInvoke(c, i, "request", Undef)

RouterNext(c, err) ==
  IF IsRouterSignal(err) THEN RouterDone(c, Undef)
  ELSE LET i == c.h.idx + 1
           c1 == [c EXCEPT !.h.idx = i, !.h.phase = "walking", !.h.cur = 0]
           stack == router[c.h.app].stack
       IN IF i > Len(stack) THEN RouterDone(c1, err)
          ELSE IF ~LayerMatches(stack[i], c.req.path) THEN RouterNext(c1, err)
          ELSE IF stack[i].kind = "route"
          THEN IF Truthy(err) THEN RouterNext(c1, err)
               ELSE IF ~HandlesMethod(routes[stack[i].route], c.req.method)
                       /\ ~c.h.stray
               THEN RouterNext(c1, err)
               ELSE RouteDispatch(c1, stack[i].route)
          ELSE IF Truthy(err) THEN RouterHandleError(c1, i, err)
          ELSE RouterHandleRequest(c1, i)


\* ------------------------------------------------------ handler completion
\* The handler at c.d.cur completed: how, with which value, and whether and
\* with what the layer's continuation is called for it.
Completed(c, kind, v, called, arg) ==
  LET c1 == [c EXCEPT !.hist.last =
                         [kind |-> kind, val |-> v, called |-> called,
                          arg |-> arg, app |-> c.h.app, route |-> c.d.route,
                          pos |-> c.d.cur]]
  IN IF called THEN Continued(c1, c.d.cur) ELSE c1

\* the handler calls next(v)
\* faulty variant: next() from an error handler leaves the error in flight
CallsNextKeepsError(c, v) ==
  LET arg == IF v = Undef /\ c.d.curMode = "error" THEN c.d.curErr ELSE v
  IN RouteNext(Completed(c, "next", v, TRUE, v), arg)

CallsNext(c, v) == RouteNext(Completed(c, "next", v, TRUE, v), v)

\* faulty variant: no try/catch around the handler
ThrowsUncaught(c, v) ==
  [Completed(c, "throw", v, FALSE, Undef) EXCEPT !.d.phase = "hung"]

\* the handler throws v before calling next: the catch clause of
\* handle_request / handle_error
Throws(c, v) ==
  LET arg == IF c.d.curMode = "error" THEN ErrorCatchArg(c.d.curErr, v)
             ELSE RequestCatchArg(v)
  IN RouteNext(Completed(c, "throw", v, TRUE, arg), arg)

\* the promise the handler returned rejects with v
Rejects(c, v) ==
  LET arg == IF c.d.curMode = "error" THEN ErrorRejectArg(c.d.curErr, v)
             ELSE RequestRejectArg(v)
  IN RouteNext(Completed(c, "reject", v, TRUE, arg), arg)

\* the promise the handler returned resolves
Resolves(c) == OnFulfilled(Completed(c, "resolve", Undef, FALSE, Undef))

\* the handler returns without a promise and without calling next
Returns(c) ==
  [Completed(c, "return", Undef, FALSE, Undef) EXCEPT !.d.phase = "hung"]

\* The handler of the Router layer c.h.cur (registered with use()) completed.
UseCompleted(c, kind, v, called, arg) ==
  [c EXCEPT !.hist.last =
               [kind |-> kind, val |-> v, called |-> called, arg |-> arg,
                app |-> c.h.app, route |-> 0, pos |-> c.h.cur]]

UseCallsNext(c, v) == RouterNext(UseCompleted(c, "next", v, TRUE, v), v)

UseThrows(c, v) ==
  LET arg == IF c.h.curMode = "error" THEN ErrorCatchArg(c.h.curErr, v)
             ELSE RequestCatchArg(v)
  IN RouterNext(UseCompleted(c, "throw", v, TRUE, arg), arg)

UseRejects(c, v) ==
  LET arg == IF c.h.curMode = "error" THEN ErrorRejectArg(c.h.curErr, v)
             ELSE RequestRejectArg(v)
  IN RouterNext(UseCompleted(c, "reject", v, TRUE, arg), arg)

UseReturns(c) ==
  [UseCompleted(c, "return", Undef, FALSE, Undef) EXCEPT !.h.phase = "hung"]

\* ------------------------------------------------------------ applications
\* Setting values.  Booleans and functions are written as strings so that
\* every value of the settings store is of one kind.
Absent == "<absent>"          \* no own property
JsTrue == "true"
JsFalse == "false"
Wetag == "function wetag"
Etag == "function etag"
QuerystringParse == "function querystring.parse"
ParseExtendedQueryString == "function parseExtendedQueryString"
TrustAll == "function () => true"
TrustNone == "function proxyaddr.compile([])"
CustomFn == "function custom"
Functions == {Wetag, Etag, QuerystringParse, ParseExtendedQueryString,
              TrustAll, TrustNone, CustomFn}
IsFunctionValue(v) == v \in Functions
Thrown == "<TypeError>"       \* the compile function threw

SettingKeys == {"title", "etag", "etag fn", "query parser", "query parser fn",
                "trust proxy", "trust proxy fn", "case sensitive routing",
                "strict routing"}

\* compileETag / compileQueryParser / compileTrust
CompileETag(val) ==
  IF IsFunctionValue(val) THEN val
  ELSE CASE val \in {JsTrue, "weak"} -> Wetag
         [] val = JsFalse -> Undef
         [] val = "strong" -> Etag
         [] OTHER -> Thrown

CompileQueryParser(val) ==
  IF IsFunctionValue(val) THEN val
  ELSE CASE val \in {JsTrue, "simple"} -> QuerystringParse
         [] val = JsFalse -> Undef
         [] val = "extended" -> ParseExtendedQueryString
         [] OTHER -> Thrown

CompileTrust(val) ==
  IF IsFunctionValue(val) THEN val
  ELSE IF val = JsTrue THEN TrustAll
  ELSE TrustNone

\* an application: app.parent (0: none), app.mountpath, the own properties of
\* app.settings, the own trust-proxy-default mark of app.settings, the
\* prototype of app.settings (0: Object.prototype), the 'mount' events
\* emitted on it; userSet: the keys the application's user has set
BareApp ==
  [parent |-> 0, mountpath |-> "/", own |-> [k \in SettingKeys |-> Absent],
   tpDefault |-> FALSE, proto |-> 0, mounted |-> <<>>, userSet |-> {}]

\* faulty variant: own properties only
LookupOwn(as, a, k) == IF as[a].own[k] # Absent THEN as[a].own[k] ELSE Undef

\* this.settings[setting], through the prototype chain
RECURSIVE Lookup(_, _, _)
Lookup(as, a, k) ==
  IF as[a].own[k] # Absent THEN as[a].own[k]
  ELSE IF as[a].proto # 0 THEN Lookup(as, as[a].proto, k)
  ELSE Undef

\* faulty variant: the companion function is not derived
SetValueOnly(app, k, v) == [app EXCEPT !.own[k] = v]

\* set(setting, val): the store after the call, also when the call throws
\* (the value is assigned before its companion is compiled)
SetValue(app, k, v) ==
  LET a1 == [app EXCEPT !.own[k] = v]
  IN CASE k = "etag" ->
            IF CompileETag(v) = Thrown THEN a1
            ELSE [a1 EXCEPT !.own["etag fn"] = CompileETag(v)]
       [] k = "query parser" ->
            IF CompileQueryParser(v) = Thrown THEN a1
            ELSE [a1 EXCEPT !.own["query parser fn"] = CompileQueryParser(v)]
       [] k = "trust proxy" ->
            [a1 EXCEPT !.own["trust proxy fn"] = CompileTrust(v),
                       !.tpDefault = FALSE]
       [] OTHER -> a1

\* faulty variant: set() never throws
SetThrowsNever(k, v) == "none"

SetThrows(k, v) ==
  IF \/ k = "etag" /\ CompileETag(v) = Thrown
     \/ k = "query parser" /\ CompileQueryParser(v) = Thrown
  THEN "TypeError" ELSE "none"

\* defaultConfiguration
NewApp ==
  [SetValue(SetValue(SetValue(BareApp, "etag", "weak"),
                     "query parser", "extended"),
            "trust proxy", JsFalse)
   EXCEPT !.tpDefault = TRUE, !.mountpath = "/"]

\* faulty variant: the own trust proxy is kept on mount
OnMountKeepsTrustProxy(as, child, parent) == [as[child] EXCEPT !.proto = parent]

\* onmount(parent), the listener of the 'mount' event
OnMount(as, child, parent) ==
  LET c1 == IF as[child].tpDefault = TRUE
               /\ IsFunctionValue(Lookup(as, parent, "trust proxy fn"))
            THEN [as[child] EXCEPT !.own["trust proxy"] = Absent,
                                   !.own["trust proxy fn"] = Absent]
            ELSE as[child]
  IN [c1 EXCEPT !.proto = parent]

RECURSIVE AppPathReversed(_, _)
RECURSIVE AppPath(_, _)
\* faulty variant: the mountpath comes before the parent's path
AppPathReversed(as, a) ==
  IF as[a].parent # 0 THEN as[a].mountpath \o AppPathReversed(as, as[a].parent)
  ELSE ""

\* path()
AppPath(as, a) ==
  IF as[a].parent # 0 THEN AppPath(as, as[a].parent) \o as[a].mountpath
  ELSE ""

\* the `router` getter: the root Router is created by the first access
\* made: how many times `new Router` ran for the application;
\* caseSensitive, strict: the options the Router was constructed with
NoRouter == [exists |-> FALSE, stack |-> <<>>, made |-> 0,
             caseSensitive |-> FALSE, strict |-> FALSE]

\* enabled(setting): Boolean(this.set(setting))
Enabled(as, a, k) == Lookup(as, a, k) \notin {Undef, JsFalse}

\* faulty variant: every access constructs a Router
RouterGetterAlwaysNew(rt, a) ==
  [exists |-> TRUE, stack |-> <<>>, made |-> IF rt.made < 2 THEN rt.made + 1 ELSE 2,
   caseSensitive |-> Enabled(apps, a, "case sensitive routing"),
   strict |-> Enabled(apps, a, "strict routing")]

\* faulty variant: the Router is constructed with the default options
RouterGetterNoOptions(rt, a) ==
  IF rt.exists THEN rt ELSE [rt EXCEPT !.exists = TRUE, !.made = @ + 1]

RouterGetter(rt, a) ==
  IF rt.exists THEN rt
  ELSE [rt EXCEPT !.exists = TRUE, !.made = @ + 1,
                  !.caseSensitive = Enabled(apps, a, "case sensitive routing"),
                  !.strict = Enabled(apps, a, "strict routing")]

WithMade(rts, made) ==
  [a \in AppIds |-> IF a \in made THEN RouterGetter(rts[a], a) ELSE rts[a]]

\* this.router.route(path): a Route layer at the end of the Router's stack
RouterRoute(rt, a, path, r) ==
  [RouterGetter(rt, a) EXCEPT !.stack = Append(@, RouteLayer(path, r))]

\* this.router.use(path, fn)
RouterUse(rt, a, layer) ==
  [RouterGetter(rt, a) EXCEPT !.stack = Append(@, layer)]

\* ------------------------------------------------------------------ actions
Ctx == [d |-> d, h |-> h, req |-> req, hist |-> hist]

Becomes(c) == d' = c.d /\ h' = c.h /\ req' = c.req /\ hist' = c.hist

Idle == d.phase = "idle" /\ h.phase = "off"

HandleLists(S) == UNION {[1..n -> S] : n \in 0..MaxArgs}

\* route.all(...handles) on a Route used on its own
RouteAll(handles) ==
  /\ Idle
  /\ Len(routes[1].stack) + Len(handles) <= MaxStack
  /\ routes' = [routes EXCEPT ![1] = PushLayers(@, Undef, handles)]
  /\ raised' = AllThrows(handles)
  /\ UNCHANGED <<apps, router, req, d, h, hist, twin, appCalls, matchLayer,
               res, other>>

\* route[method](...handles)
RouteVerb(method, handles) ==
  /\ Idle
  /\ Len(routes[1].stack) + Len(handles) <= MaxStack
  /\ routes' = [routes EXCEPT ![1] = PushLayers(@, method, handles)]
  /\ raised' = VerbThrows(handles)
  /\ UNCHANGED <<apps, router, req, d, h, hist, twin, appCalls, matchLayer,
               res, other>>

\* route.dispatch(req, res, done) called directly
Dispatch(method) ==
  LET c == RouteDispatch(
             [Ctx EXCEPT !.req = [method |-> method, path |-> routes[1].path,
                                  route |-> 0, app |-> 0,
   resApp |-> 0]], 1)
  IN /\ Idle
     /\ \A a \in AppIds : ~router[a].exists
     /\ Becomes(c)
     /\ twin' = c
     /\ raised' = "none"
     /\ UNCHANGED <<routes, apps, router, appCalls, matchLayer, res, other>>

\* app[method](path, ...handles) on application a; app.get(name) alone
\* reads a setting
AppVerbOn(a, method, path, handles) ==
  /\ Idle
  /\ IF method = "get" /\ Len(handles) = 0
     THEN /\ raised' = "none"
          /\ UNCHANGED <<routes, router, appCalls, matchLayer, res, other>>
     ELSE /\ Len(router[a].stack) < MaxRoutes
          /\ routes' = Append(routes, PushLayers(NewRoute(path), method, handles))
          /\ router' = [router EXCEPT ![a] = RouterRoute(@, a, path, Len(routes) + 1)]
          /\ appCalls' = IF a = 1
                         THEN Append(appCalls, [api |-> method, path |-> path,
                                                handles |-> handles])
                         ELSE appCalls
          /\ raised' = VerbThrows(handles)
  /\ UNCHANGED <<apps, req, d, h, hist, twin, matchLayer, res, other>>

AppVerb(method, path, handles) == AppVerbOn(1, method, path, handles)

\* route[methods[i]].apply(route, handlers) for i from k on
RECURSIVE AllMethods(_, _, _)
AllMethods(route, k, handlers) ==
  IF k > Len(Methods) THEN route
  ELSE AllMethods(PushLayers(route, Methods[k], handlers), k + 1, handlers)

\* app.all(path, ...handlers): the first route[method] call throws when a
\* handler is not a function, and the loop ends there
AppAll(path, handlers) ==
  /\ Idle
  /\ Len(router[1].stack) < MaxRoutes
  /\ routes' = Append(routes,
                      IF VerbThrows(handlers) = "none"
                      THEN AllMethods(NewRoute(path), 1, handlers)
                      ELSE PushLayers(NewRoute(path), Methods[1], handlers))
  /\ router' = [router EXCEPT ![1] = RouterRoute(@, 1, path, Len(routes) + 1)]
  /\ appCalls' = Append(appCalls, [api |-> "all", path |-> path,
                                   handles |-> handlers])
  /\ raised' = VerbThrows(handlers)
  /\ UNCHANGED <<apps, req, d, h, hist, twin, matchLayer, res, other>>

\* app.route(path)
AppRoute(path) ==
  /\ Idle
  /\ Len(router[1].stack) < MaxRoutes
  /\ routes' = Append(routes, NewRoute(path))
  /\ router' = [router EXCEPT ![1] = RouterRoute(@, 1, path, Len(routes) + 1)]
  /\ appCalls' = Append(appCalls, [api |-> "route", path |-> path,
                                   handles |-> <<>>])
  /\ raised' = "none"
  /\ UNCHANGED <<apps, req, d, h, hist, twin, matchLayer, res, other>>

\* app.param(name, fn): this.router.param(name, fn); the callbacks a Router
\* keeps for a parameter are not part of the model
AppParam(name) ==
  /\ Idle
  /\ router' = [router EXCEPT ![1] = RouterGetter(@, 1)]
  /\ raised' = "none"
  /\ UNCHANGED <<routes, apps, req, d, h, hist, twin, appCalls, matchLayer,
                 res, other>>

\* the request is over: the application is idle again
RequestOver ==
  /\ h.phase = "done"
  /\ Becomes(IdleCtx)
  /\ UNCHANGED <<routes, apps, router, twin, appCalls, raised, matchLayer,
                 res, other>>

\* app.handle(req, res, done)
AppHandle(method, path, stray) ==
  LET c == RouterNext(
             [Ctx EXCEPT !.req = [method |-> method, path |-> path,
                                  route |-> 0, app |-> 1,
   resApp |-> 1],
                         !.h = [IdleH EXCEPT !.phase = "walking", !.app = 1,
                                             !.made = {1}, !.stray = stray]],
             Undef)
  IN /\ Idle
     /\ router' = WithMade(router, c.h.made)
     /\ Becomes(c)
     /\ twin' = c
     /\ raised' = "none"
     /\ UNCHANGED <<routes, apps, appCalls, matchLayer, res, other>>

\* what use() is given: a function, with or without a handle method and a
\* set method; arg.app is the application it is, if it is one
PlainArg(fn) == [fn |-> fn, handle |-> FALSE, set |-> FALSE, app |-> 0]
BareRouterArg == [fn |-> Fn("router", 3), handle |-> TRUE, set |-> FALSE, app |-> 0]
SetOnlyArg == [fn |-> Fn("store", 3), handle |-> FALSE, set |-> TRUE, app |-> 0]
AppArg(b) == [fn |-> Fn("app", 3), handle |-> TRUE, set |-> TRUE, app |-> b]

\* faulty variant: nothing is taken for a sub-application
IsSubAppNever(arg) == FALSE
IsSubApp(arg) == ~(~arg.handle \/ ~arg.set)

\* faulty variant: the sub-application keeps its parent and mountpath
MountNoParent(st, a, path, b) ==
  LET st2 == [st EXCEPT !.router[a] = RouterUse(@, a, AppLayer(path, b))]
  IN [st2 EXCEPT !.apps[b] =
        [OnMount(st2.apps, b, a) EXCEPT !.mounted = Append(@, a)]]

\* the body of fns.forEach for a sub-application b: mountpath, parent, the
\* mounted_app layer, then the 'mount' event and its listener
Mount(st, a, path, b) ==
  LET st1 == [st EXCEPT !.apps[b].mountpath = path, !.apps[b].parent = a]
      st2 == [st1 EXCEPT !.router[a] = RouterUse(@, a, AppLayer(path, b))]
  IN [st2 EXCEPT !.apps[b] =
        [OnMount(st2.apps, b, a) EXCEPT !.mounted = Append(@, a)]]

RECURSIVE UseEach(_, _, _, _, _)
UseEach(st, a, path, fns, i) ==
  IF i > Len(fns) THEN st
  ELSE IF ~IsSubApp(fns[i])
  THEN UseEach([st EXCEPT !.router[a] = RouterUse(@, a, FnLayer(path, fns[i].fn))],
               a, path, fns, i + 1)
  ELSE UseEach(Mount(st, a, path, fns[i].app), a, path, fns, i + 1)

RECURSIVE Ancestors(_, _)
Ancestors(as, a) ==
  IF as[a].parent = 0 THEN {} ELSE {as[a].parent} \cup Ancestors(as, as[a].parent)

\* app.use(path, ...fns) on application a; path = NoPathArg: app.use(...fns).
\* An application is mounted once and never under itself.
NoPathArg == "<no path>"
AppUse(a, path, fns) ==
  LET st == UseEach([apps |-> apps, router |-> router], a,
                    IF path = NoPathArg THEN "/" ELSE path, fns, 1)
  IN /\ Idle
     /\ Len(router[a].stack) + Len(fns) <= MaxRoutes
     /\ \A i \in DOMAIN fns :
          fns[i].app # 0 =>
            /\ apps[fns[i].app].parent = 0
            /\ fns[i].app \notin {a} \cup Ancestors(apps, a)
            /\ \A j \in DOMAIN fns : fns[j].app = fns[i].app => j = i
     /\ IF Len(fns) = 0
        THEN /\ raised' = "TypeError"
             /\ UNCHANGED <<apps, router, matchLayer, res, other>>
        ELSE /\ raised' = "none"
             /\ apps' = st.apps
             /\ router' = st.router
     /\ UNCHANGED <<routes, req, d, h, hist, twin, appCalls, matchLayer, res,
               other>>

\* set(setting, val) on application a
AppSet(a, k, v) ==
  /\ Idle
  /\ apps' = [apps EXCEPT ![a] = [SetValue(@, k, v) EXCEPT !.userSet = @ \cup {k}]]
  /\ raised' = SetThrows(k, v)
  /\ UNCHANGED <<routes, router, req, d, h, hist, twin, appCalls, matchLayer,
               res, other>>

\* the handler of a Router layer completes
UseHandlerCallsNext(v) ==
  /\ h.phase = "running"
  /\ Becomes(UseCallsNext(Ctx, v))
  /\ router' = WithMade(router, UseCallsNext(Ctx, v).h.made)
  /\ UNCHANGED <<routes, apps, twin, appCalls, raised, matchLayer, res, other>>

UseHandlerThrows(v) ==
  /\ h.phase = "running"
  /\ Becomes(UseThrows(Ctx, v))
  /\ router' = WithMade(router, UseThrows(Ctx, v).h.made)
  /\ UNCHANGED <<routes, apps, twin, appCalls, raised, matchLayer, res, other>>

UsePromiseRejects(v) ==
  /\ h.phase = "running"
  /\ Becomes(UseRejects(Ctx, v))
  /\ router' = WithMade(router, UseRejects(Ctx, v).h.made)
  /\ UNCHANGED <<routes, apps, twin, appCalls, raised, matchLayer, res, other>>

UseHandlerReturns ==
  /\ h.phase = "running"
  /\ Becomes(UseReturns(Ctx))
  /\ UNCHANGED <<routes, apps, router, twin, appCalls, raised, matchLayer,
               res, other>>

\* the replaced route takes the same step, its handler calling next(v)
\* where the original throws v
TwinRunning == twin.d.phase = "running"

HandlerCallsNext(v) ==
  /\ d.phase = "running"
  /\ Becomes(CallsNext(Ctx, v))
  /\ twin' = IF TwinRunning THEN CallsNext(twin, v) ELSE twin
  /\ router' = WithMade(router, CallsNext(Ctx, v).h.made)
  /\ UNCHANGED <<routes, apps, appCalls, raised, matchLayer, res, other>>

HandlerThrows(v) ==
  /\ d.phase = "running"
  /\ Becomes(Throws(Ctx, v))
  /\ twin' = IF TwinRunning THEN CallsNext(twin, v) ELSE twin
  /\ router' = WithMade(router, Throws(Ctx, v).h.made)
  /\ UNCHANGED <<routes, apps, appCalls, raised, matchLayer, res, other>>

PromiseRejects(v) ==
  /\ d.phase = "running"
  /\ Becomes(Rejects(Ctx, v))
  /\ twin' = IF TwinRunning THEN Rejects(twin, v) ELSE twin
  /\ router' = WithMade(router, Rejects(Ctx, v).h.made)
  /\ UNCHANGED <<routes, apps, appCalls, raised, matchLayer, res, other>>

PromiseResolves ==
  /\ d.phase = "running"
  /\ Becomes(Resolves(Ctx))
  /\ twin' = IF TwinRunning THEN Resolves(twin) ELSE twin
  /\ router' = WithMade(router, Resolves(Ctx).h.made)
  /\ UNCHANGED <<routes, apps, appCalls, raised, matchLayer, res, other>>

HandlerReturns ==
  /\ d.phase = "running"
  /\ Becomes(Returns(Ctx))
  /\ twin' = IF TwinRunning THEN Returns(twin) ELSE twin
  /\ router' = WithMade(router, Returns(Ctx).h.made)
  /\ UNCHANGED <<routes, apps, appCalls, raised, matchLayer, res, other>>

\* ------------------------------------------------- two requests, one Route
\* idx and method are locals of the dispatch call (`let idx = 0`,
\* `let method = ...`) and err a parameter of its next(): the next() of a
\* call c reads and writes the variables of c, whatever a call o that is in
\* flight on the same Route did.
\* faulty variant: the cursor is kept on the Route, one for all calls
ClosureShared(c, o) ==
  IF o.d.phase = "idle" THEN c ELSE [c EXCEPT !.d.idx = o.d.idx]

Closure(c, o) == c

\* how a running handler ends
Completions == {"next", "throw", "return"}
Complete(c, kind, v) ==
  CASE kind = "next" -> CallsNext(c, v)
    [] kind = "throw" -> Throws(c, v)
    [] kind = "return" -> Returns(c)

DirectReq(method) ==
  [method |-> method, path |-> routes[1].path, route |-> 0, app |-> 0,
   resApp |-> 0]

\* route.dispatch(req1, res1, done1)
FirstDispatch(method) ==
  LET c == RouteDispatch([Ctx EXCEPT !.req = DirectReq(method)], 1)
  IN /\ Idle
     /\ \A a \in AppIds : ~router[a].exists
     /\ Becomes(c)
     /\ other' = [other EXCEPT !.solo1 = c]
     /\ raised' = "none"
     /\ UNCHANGED <<routes, apps, router, twin, appCalls, matchLayer, res>>

\* route.dispatch(req2, res2, done2) while the first request is in flight
SecondDispatch(method) ==
  LET c == RouteDispatch([other.ctx EXCEPT !.req = DirectReq(method)], 1)
  IN /\ d.phase # "idle"
     /\ other.ctx.d.phase = "idle"
     /\ other' = [other EXCEPT !.ctx = c, !.solo2 = c]
     /\ UNCHANGED <<routes, apps, router, req, d, h, hist, twin, appCalls,
                    raised, matchLayer, res>>

\* the running handler of the first request ends
FirstCompletes(kind, v) ==
  /\ d.phase = "running"
  /\ Becomes(Complete(Closure(Ctx, other.ctx), kind, v))
  /\ other' = [other EXCEPT !.solo1 = Complete(@, kind, v)]
  /\ UNCHANGED <<routes, apps, router, twin, appCalls, raised, matchLayer, res>>

\* the running handler of the second request ends
SecondCompletes(kind, v) ==
  /\ other.ctx.d.phase = "running"
  /\ other' = [other EXCEPT !.ctx = Complete(Closure(@, Ctx), kind, v),
                             !.solo2 = Complete(@, kind, v)]
  /\ UNCHANGED <<routes, apps, router, req, d, h, hist, twin, appCalls,
                 raised, matchLayer, res>>

\* ---------------------------------------------------------------- Response
\* A header value is a string or an array of strings; a field that is not
\* set has no value.
StrVal(text) == [arr |-> FALSE, vals |-> <<text>>]
ArrVal(texts) == [arr |-> TRUE, vals |-> texts]
NoHeader == [arr |-> FALSE, vals |-> <<>>]
Fields == {"Link", "Content-Type", "Content-Length", "ETag"}

\* the closure of sendfile(res, file, options, callback): done and streaming
\* are its locals, immediate the function it gave to setImmediate and has
\* not run yet, finished whether onFinished has called onfinish, fnCalls the
\* errors the callback of res.sendFile was called with, events the file
\* stream events delivered
NoTransfer ==
  [active |-> FALSE, done |-> FALSE, streaming |-> Undef, immediate |-> FALSE,
   finished |-> FALSE, fnCalls |-> <<>>, events |-> 0]

\* the response as Express hands it to the handlers; calls: the set and
\* append calls made on it; req: the request headers res.req carries; sent:
\* the argument of res.send; by: the position in its Route of the handler
\* that called res.send
NewResponse ==
  [statusCode |-> 200, headers |-> [f \in Fields |-> NoHeader], body |-> Undef,
   ended |-> FALSE, threw |-> "none", calls |-> <<>>,
   req |-> [ifNoneMatch |-> ""], sent |-> Undef, by |-> 0, file |-> NoTransfer]

\* res.get(field)
ResGet(r, field) == r.headers[field]

\* a value as an `if (value)` test sees it
HeaderTruthy(val) == val # NoHeader /\ val # StrVal("")

\* mime.charsets.lookup(type) and charsetRegExp
HasCharset(text) == text \in {"text/html; charset=utf-8", "application/json; charset=utf-8"}
WithCharset(text) ==
  CASE text = "text/html" -> "text/html; charset=utf-8"
    [] text = "application/json" -> "application/json; charset=utf-8"
    [] OTHER -> text

\* res.set(field, val)
ResSet(r, field, val) ==
  IF field = "Content-Type"
  THEN IF val.arr THEN [r EXCEPT !.threw = "TypeError"]
       ELSE [r EXCEPT !.headers[field] =
                        IF HasCharset(val.vals[1]) THEN val
                        ELSE StrVal(WithCharset(val.vals[1]))]
  ELSE [r EXCEPT !.headers[field] = val]

\* res.append(field, val)
ResAppend(r, field, val) ==
  LET prev == ResGet(r, field)
      value == IF HeaderTruthy(prev)
               THEN IF prev.arr THEN ArrVal(prev.vals \o val.vals)
                    ELSE IF val.arr THEN ArrVal(<<prev.vals[1]>> \o val.vals)
                    ELSE ArrVal(<<prev.vals[1], val.vals[1]>>)
               ELSE val
  IN ResSet(r, field, value)

\* the handler calls res.set(field, val) / res.append(field, val)
CallsSet(field, val) ==
  /\ Len(res.calls) < MaxCalls
  /\ res' = [ResSet([res EXCEPT !.threw = "none"], field, val)
               EXCEPT !.calls = Append(@, [op |-> "set", field |-> field, val |-> val])]
  /\ UNCHANGED <<routes, apps, router, req, d, h, hist, twin, appCalls, raised, matchLayer,
               other>>

CallsAppend(field, val) ==
  /\ Len(res.calls) < MaxCalls
  /\ res' = [ResAppend([res EXCEPT !.threw = "none"], field, val)
               EXCEPT !.calls = Append(@, [op |-> "append", field |-> field, val |-> val])]
  /\ UNCHANGED <<routes, apps, router, req, d, h, hist, twin, appCalls, raised, matchLayer,
               other>>

\* ------------------------------------------------------------------ res.send
\* what res.send is given: a string, a Buffer or null
StringBody(text) == [type |-> "string", text |-> text]
BufferBody(text) == [type |-> "buffer", text |-> text]
NullBody == [type |-> "null", text |-> ""]
Bodies == {StringBody("tobi"), StringBody(""), BufferBody("tobi"), NullBody}

\* Buffer.byteLength(chunk) / chunk.length, as set() stringifies it
ByteLength(text) == IF text = "" THEN "0" ELSE "4"

\* utils.setCharset(type, 'utf-8')
SetCharset(text) ==
  CASE HasCharset(text) -> text
    [] text \in {"text/html", "application/json"} -> WithCharset(text)
    [] OTHER -> text \o "; charset=utf-8"

\* etagFn(chunk, encoding) for the etag functions a setting can hold
StrongTag(text) == "<" \o ByteLength(text) \o "-" \o text \o ">"
ApplyETag(etagFn, text) ==
  CASE etagFn = Wetag -> "W/" \o StrongTag(text)
    [] etagFn = Etag -> StrongTag(text)
    [] OTHER -> "<custom>"

\* fresh(reqHeaders, {etag}): If-None-Match against the response's ETag,
\* compared weakly
IfNoneMatches == {"", "*", StrongTag("tobi"), StrongTag("")}
Fresh(ifNoneMatch, etag) ==
  /\ ifNoneMatch # ""
  /\ \/ ifNoneMatch = "*"
     \/ /\ etag # NoHeader
        /\ \/ etag.vals[1] = ifNoneMatch
           \/ etag.vals[1] = "W/" \o ifNoneMatch

\* req.fresh
ReqFresh(r, reqMethod) ==
  /\ reqMethod \in {"GET", "HEAD"}
  /\ (r.statusCode >= 200 /\ r.statusCode < 300) \/ r.statusCode = 304
  /\ Fresh(r.req.ifNoneMatch, ResGet(r, "ETag"))

RemoveHeader(r, field) == [r EXCEPT !.headers[field] = NoHeader]

\* faulty variant: nothing at all about the body for HEAD
SendBare(r, reqMethod, etagFn, body) ==
  IF reqMethod = "HEAD" THEN [r EXCEPT !.body = "", !.ended = TRUE, !.sent = body]
  ELSE LET r1 == ResSet(r, "Content-Length", StrVal(ByteLength(body.text)))
       IN [r1 EXCEPT !.body = body.text, !.ended = TRUE, !.sent = body]

\* res.send(body), the request's method being reqMethod and app.get('etag fn')
\* being etagFn
Send(r, reqMethod, etagFn, body) ==
  LET isString == body.type \in {"string", "null"}
      r1 == CASE body.type = "string" /\ ~HeaderTruthy(ResGet(r, "Content-Type")) ->
                   ResSet(r, "Content-Type", StrVal("text/html"))
              [] body.type = "buffer" /\ ~HeaderTruthy(ResGet(r, "Content-Type")) ->
                   ResSet(r, "Content-Type", StrVal("application/octet-stream"))
              [] OTHER -> r
      type == ResGet(r1, "Content-Type")
      r2 == IF isString /\ type # NoHeader /\ ~type.arr
            THEN ResSet(r1, "Content-Type", StrVal(SetCharset(type.vals[1])))
            ELSE r1
      generateETag == ~HeaderTruthy(ResGet(r2, "ETag")) /\ IsFunctionValue(etagFn)
      r3 == ResSet(r2, "Content-Length", StrVal(ByteLength(body.text)))
      r4 == IF generateETag
            THEN ResSet(r3, "ETag", StrVal(ApplyETag(etagFn, body.text)))
            ELSE r3
      r5 == IF ReqFresh(r4, reqMethod) THEN [r4 EXCEPT !.statusCode = 304] ELSE r4
      strip == r5.statusCode \in {204, 304}
      r6 == IF strip
            THEN RemoveHeader(RemoveHeader(r5, "Content-Type"), "Content-Length")
            ELSE r5
      chunk == IF strip THEN "" ELSE body.text
  IN [r6 EXCEPT !.body = IF reqMethod = "HEAD" THEN "" ELSE chunk,
                !.ended = TRUE, !.sent = body]

\* app.handle(req, res, done) with a request that carries If-None-Match
AppRequest(method, path, ifNoneMatch) ==
  LET c == RouterNext(
             [Ctx EXCEPT !.req = [method |-> method, path |-> path,
                                  route |-> 0, app |-> 1,
   resApp |-> 1],
                         !.h = [IdleH EXCEPT !.phase = "walking", !.app = 1,
                                             !.made = {1}]],
             Undef)
  IN /\ Idle
     /\ router' = WithMade(router, c.h.made)
     /\ Becomes(c)
     /\ res' = [NewResponse EXCEPT !.req.ifNoneMatch = ifNoneMatch]
     /\ raised' = "none"
     /\ UNCHANGED <<routes, apps, twin, appCalls, matchLayer, other>>

\* the running handler answers: res.send(body), and returns
HandlerSends(body) ==
  /\ d.phase = "running"
  /\ ~res.ended
  /\ res' = [Send(res, req.method, Lookup(apps, 1, "etag fn"), body)
               EXCEPT !.by = d.cur]
  /\ Becomes(Returns(Ctx))
  /\ UNCHANGED <<routes, apps, router, twin, appCalls, raised, matchLayer, other>>

\* ------------------------------------------------------------ res.sendFile
\* the callback sendFile hands to sendfile, with fn given: done(err)
Callback(t, err) == [t EXCEPT !.fnCalls = Append(@, err)]

OnAborted(t) ==
  IF t.done THEN t ELSE Callback([t EXCEPT !.done = TRUE], "ECONNABORTED")

OnDirectory(t) ==
  IF t.done THEN t ELSE Callback([t EXCEPT !.done = TRUE], "EISDIR")

OnError(t, err) ==
  IF t.done THEN t ELSE Callback([t EXCEPT !.done = TRUE], err)

\* faulty variant: end reports completion whatever happened before
OnEndUnguarded(t) == Callback([t EXCEPT !.done = TRUE], Undef)

OnEnd(t) ==
  IF t.done THEN t ELSE Callback([t EXCEPT !.done = TRUE], Undef)

OnFile(t) == [t EXCEPT !.streaming = "false"]

OnStream(t) == [t EXCEPT !.streaming = "true"]

\* faulty variant: a clean finish schedules nothing
OnFinishNoImmediate(t, err) ==
  IF err = "ECONNRESET" THEN OnAborted(t)
  ELSE IF err # Undef THEN OnError(t, err)
  ELSE t

OnFinish(t, err) ==
  IF err = "ECONNRESET" THEN OnAborted(t)
  ELSE IF err # Undef THEN OnError(t, err)
  ELSE IF t.done THEN t
  ELSE [t EXCEPT !.immediate = TRUE]

\* the function onfinish gave to setImmediate
Immediate(t) ==
  IF t.streaming # "false" /\ ~t.done THEN OnAborted(t)
  ELSE IF t.done THEN t
  ELSE Callback([t EXCEPT !.done = TRUE], Undef)

\* the events of the file stream and the errors they and the response carry
FileEvents == {"directory", "error", "end", "file", "stream"}
FileErrors == {"ENOENT", "EACCES"}
FinishErrors == {Undef, "ECONNRESET", "EPIPE"}

OnEvent(t, ev, err) ==
  CASE ev = "directory" -> OnDirectory(t)
    [] ev = "error" -> OnError(t, err)
    [] ev = "end" -> OnEnd(t)
    [] ev = "file" -> OnFile(t)
    [] ev = "stream" -> OnStream(t)

\* the handler calls res.sendFile(path, fn)
SendFile ==
  /\ ~res.file.active
  /\ res' = [res EXCEPT !.file = [NoTransfer EXCEPT !.active = TRUE]]
  /\ UNCHANGED <<routes, apps, router, req, d, h, hist, twin, appCalls, raised, matchLayer,
               other>>

\* the file stream emits an event
FileEmits(ev, err) ==
  /\ res.file.active
  /\ res.file.events < MaxEvents
  /\ res' = [res EXCEPT !.file = [OnEvent(@, ev, err) EXCEPT !.events = @ + 1]]
  /\ UNCHANGED <<routes, apps, router, req, d, h, hist, twin, appCalls, raised, matchLayer,
               other>>

\* onFinished(res, onfinish) calls its listener, once
ResponseFinished(err) ==
  /\ res.file.active
  /\ ~res.file.finished
  /\ res' = [res EXCEPT !.file = [OnFinish(@, err) EXCEPT !.finished = TRUE]]
  /\ UNCHANGED <<routes, apps, router, req, d, h, hist, twin, appCalls, raised, matchLayer,
               other>>

\* the event loop runs the function given to setImmediate
RunImmediate ==
  /\ res.file.immediate
  /\ res' = [res EXCEPT !.file = [Immediate(@) EXCEPT !.immediate = FALSE]]
  /\ UNCHANGED <<routes, apps, router, req, d, h, hist, twin, appCalls, raised, matchLayer,
               other>>

\* ------------------------------------------------------------- Layer.match
\* A path pattern is its segments, each a literal or a named parameter,
\* with the `end` option and the '*' flag; a request path is its raw
\* segments and whether a slash ends it, or null.
Lit(text) == [kind |-> "lit", text |-> text]
Par(name) == [kind |-> "par", text |-> name]
Pattern(segs, end, star) == [segs |-> segs, end |-> end, star |-> star]
Patterns ==
  {Pattern(<<>>, TRUE, FALSE),                             \* '/'
   Pattern(<<>>, FALSE, FALSE),                            \* '/', end: false
   Pattern(<<>>, TRUE, TRUE),                              \* '*'
   Pattern(<<Lit("users")>>, TRUE, FALSE),                 \* '/users'
   Pattern(<<Lit("users")>>, FALSE, FALSE),                \* '/users', end: false
   Pattern(<<Par("id")>>, TRUE, FALSE),                    \* '/:id'
   Pattern(<<Lit("users"), Par("id")>>, TRUE, FALSE),      \* '/users/:id'
   Pattern(<<Par("kind"), Par("id")>>, TRUE, FALSE)}       \* '/:kind/:id'

RawSegs == {"users", "42", "a%20b", "%zz"}
NullPath == [segs |-> <<>>, slash |-> FALSE, null |-> TRUE]
ReqPath(segs, slash) == [segs |-> segs, slash |-> slash, null |-> FALSE]
ReqPaths ==
  {NullPath}
    \cup {ReqPath(segs, slash) :
            segs \in UNION {[1..n -> RawSegs] : n \in 1..MaxSegs},
            slash \in BOOLEAN}
    \cup {ReqPath(<<>>, FALSE)}

\* the text of the first n segments of a path
RECURSIVE Joined(_, _)
Joined(segs, n) ==
  IF n = 0 THEN "" ELSE Joined(segs, n - 1) \o "/" \o segs[n]
PathText(path) ==
  IF path.segs = <<>> THEN "/"
  ELSE Joined(path.segs, Len(path.segs)) \o (IF path.slash THEN "/" ELSE "")

DecodeFails == "<URIError>"
\* faulty variant: nothing is decoded
DecodeNothing(val) == val

\* decodeURIComponent: the decoded text, or DecodeFails for a malformed
\* escape
DecodeURIComponent(val) ==
  CASE val = "a%20b" -> "a b"
    [] val = "%zz" -> DecodeFails
    [] OTHER -> val

\* a malformed escape anywhere in a text makes its decoding fail
Malformed(path) ==
  \E i \in DOMAIN path.segs : DecodeURIComponent(path.segs[i]) = DecodeFails
RECURSIVE JoinedDecoded(_, _)
JoinedDecoded(segs, n) ==
  IF n = 0 THEN ""
  ELSE JoinedDecoded(segs, n - 1) \o "/" \o DecodeURIComponent(segs[n])
DecodeText(path) ==
  IF Malformed(path) THEN DecodeFails
  ELSE IF path.segs = <<>> THEN "/"
  ELSE JoinedDecoded(path.segs, Len(path.segs))
          \o (IF path.slash THEN "/" ELSE "")

\* the error decode_param throws
NoError == [status |-> 0, statusCode |-> 0, message |-> ""]
DecodeError(val) ==
  [status |-> 400, statusCode |-> 400,
   message |-> "Failed to decode param '" \o val \o "'"]

\* this.regexp.exec(path) of the regular expression path-to-regexp builds
\* (not strict): whether it matches, match[0], and the captures
SegFits(pseg, raw) == pseg.kind = "par" \/ pseg.text = raw
Exec(pattern, path) ==
  LET n == Len(pattern.segs)
      fits == /\ n <= Len(path.segs)
              /\ pattern.end => n = Len(path.segs)
              /\ \A i \in 1..n : SegFits(pattern.segs[i], path.segs[i])
      whole == n = Len(path.segs)
      text == IF n = 0 \/ ~fits THEN "/"
              ELSE Joined(path.segs, n)
                     \o (IF whole /\ path.slash THEN "/" ELSE "")
      parIdx == {i \in 1..n : pattern.segs[i].kind = "par"}
  IN [found |-> fits, text |-> text,
      keys |-> [i \in 1..n |-> IF i \in parIdx THEN pattern.segs[i].text ELSE ""],
      caps |-> [i \in 1..n |-> IF fits THEN path.segs[i] ELSE ""]]

\* params as a map from names to values
NoParams == [defined |-> FALSE, map |-> <<>>]
EmptyParams == [defined |-> TRUE, map |-> <<>>]
WithParam(params, prop, val) ==
  [params EXCEPT !.map = [n \in DOMAIN params.map \cup {prop} |->
                            IF n = prop THEN val ELSE params.map[n]]]

\* the loop storing the decoded captures; it ends where decode_param throws
RECURSIVE StoreValues(_, _, _)
StoreValues(lay, m, i) ==
  IF i > Len(m.keys) THEN [lay EXCEPT !.ret = "true"]
  ELSE IF m.keys[i] = "" THEN StoreValues(lay, m, i + 1)
  ELSE IF DecodeURIComponent(m.caps[i]) = DecodeFails
  THEN [lay EXCEPT !.ret = "threw", !.err = DecodeError(m.caps[i])]
  ELSE StoreValues([lay EXCEPT !.params =
                      WithParam(@, m.keys[i], DecodeURIComponent(m.caps[i]))],
                   m, i + 1)

NoMatchLayer ==
  [made |-> FALSE, pattern |-> Pattern(<<>>, TRUE, FALSE), params |-> NoParams,
   path |-> Undef, ret |-> "none", err |-> NoError, arg |-> NullPath,
   matched |-> FALSE]

\* new Layer(path, options, fn)
LayerConstructor(pattern) ==
  [NoMatchLayer EXCEPT !.made = TRUE, !.pattern = pattern]

\* faulty variant: a failed match leaves params and path as they were
LayerMatchKeeps(lay, path) ==
  LET m == Exec(lay.pattern, path)
  IN IF path.null \/ ~m.found THEN [lay EXCEPT !.ret = "false"]
     ELSE StoreValues([lay EXCEPT !.params = EmptyParams, !.path = m.text], m, 1)

\* faulty variant: a capture that cannot be decoded makes match() fail
LayerMatchFalse(lay, path) ==
  LET m == Exec(lay.pattern, path)
      undecodable == \E i \in DOMAIN m.keys :
                        m.keys[i] # "" /\ DecodeURIComponent(m.caps[i]) = DecodeFails
  IN IF path.null \/ lay.pattern.star \/ ~m.found \/ undecodable
        \/ (lay.pattern.segs = <<>> /\ ~lay.pattern.end)
     THEN [lay EXCEPT !.params = NoParams, !.path = Undef, !.ret = "false"]
     ELSE StoreValues([lay EXCEPT !.params = EmptyParams, !.path = m.text], m, 1)

\* faulty variant: no fast paths, every pattern goes through the regular
\* expression
LayerMatchSlow(lay, path) ==
  LET m == Exec(lay.pattern, path)
  IN IF path.null \/ ~m.found
     THEN [lay EXCEPT !.params = NoParams, !.path = Undef, !.ret = "false"]
     ELSE StoreValues([lay EXCEPT !.params = EmptyParams, !.path = m.text], m, 1)

\* Layer.match(path): the layer after the call; ret is what the call
\* returned, or "threw" with the error in err
LayerMatch(lay, path) ==
  LET fast_slash == lay.pattern.segs = <<>> /\ ~lay.pattern.end /\ ~lay.pattern.star
      fast_star == lay.pattern.star
      m == Exec(lay.pattern, path)
  IN IF ~path.null /\ fast_slash
     THEN [lay EXCEPT !.params = EmptyParams, !.path = "", !.ret = "true"]
     ELSE IF ~path.null /\ fast_star
     THEN IF DecodeText(path) = DecodeFails
          THEN [lay EXCEPT !.ret = "threw", !.err = DecodeError(PathText(path))]
          ELSE [lay EXCEPT !.params = WithParam(EmptyParams, "0", DecodeText(path)),
                           !.path = PathText(path), !.ret = "true"]
     ELSE IF path.null \/ ~m.found
     THEN [lay EXCEPT !.params = NoParams, !.path = Undef, !.ret = "false"]
     ELSE StoreValues([lay EXCEPT !.params = EmptyParams, !.path = m.text], m, 1)

\* the two operations on the Layer
NewMatchLayer(pattern) ==
  /\ ~matchLayer.made
  /\ matchLayer' = LayerConstructor(pattern)
  /\ UNCHANGED <<routes, apps, router, req, d, h, hist, twin, appCalls, raised,
               res, other>>

Match(path) ==
  /\ matchLayer.made
  /\ matchLayer' =
       [LayerMatch([matchLayer EXCEPT !.err = NoError], path)
          EXCEPT !.arg = path,
                 !.matched = matchLayer.matched \/ matchLayer.ret = "true"]
  /\ UNCHANGED <<routes, apps, router, req, d, h, hist, twin, appCalls, raised,
               res, other>>

\* ----------------------------------------------------------- specifications
\* Spec: one Route used on its own (new Route(path)), set up and then
\* dispatched once.
Init ==
  /\ routes = <<NewRoute("/foo")>>
  /\ apps = [a \in AppIds |-> NewApp]
  /\ router = [a \in AppIds |-> NoRouter]
  /\ req = NoReq
  /\ d = IdleD
  /\ h = IdleH
  /\ hist = EmptyHist
  /\ twin = [d |-> IdleD, h |-> IdleH, req |-> NoReq, hist |-> EmptyHist]
  /\ appCalls = <<>>
  /\ raised = "none"
  /\ matchLayer = NoMatchLayer
  /\ res = NewResponse
  /\ other = NoOther

Next ==
  \/ \E hs \in HandleLists(RouteHandlers \cup {NotAFunction}) : RouteAll(hs)
  \/ \E m \in RouteVerbs, hs \in HandleLists(RouteHandlers \cup {NotAFunction}) :
       RouteVerb(m, hs)
  \/ \E m \in ReqMethods : Dispatch(m)
  \/ \E v \in Values : HandlerCallsNext(v)
  \/ \E v \in Values : HandlerThrows(v)
  \/ \E v \in Values : PromiseRejects(v)
  \/ PromiseResolves
  \/ HandlerReturns

Spec == Init /\ [][Next]_vars

\* SpecApp: an application (express()), routes registered through it, then one
\* request handled.
AppHandleLists == {<<>>, <<Fn("h1", 3)>>, <<Fn("h1", 3), Fn("h2", 3)>>}

InitApp ==
  /\ routes = <<>>
  /\ apps = [a \in AppIds |-> NewApp]
  /\ router = [a \in AppIds |-> NoRouter]
  /\ req = NoReq
  /\ d = IdleD
  /\ h = IdleH
  /\ hist = EmptyHist
  /\ twin = [d |-> IdleD, h |-> IdleH, req |-> NoReq, hist |-> EmptyHist]
  /\ appCalls = <<>>
  /\ raised = "none"
  /\ matchLayer = NoMatchLayer
  /\ res = NewResponse
  /\ other = NoOther

NextApp ==
  \/ \E m \in AppVerbs, hs \in AppHandleLists : AppVerb(m, "/foo", hs)
  \/ AppRoute("/foo")
  \/ \E m \in ReqMethods, p \in Paths, s \in BOOLEAN : AppHandle(m, p, s)
  \/ \E v \in Values : HandlerCallsNext(v)
  \/ \E v \in Values : HandlerThrows(v)
  \/ \E v \in Values : PromiseRejects(v)
  \/ PromiseResolves
  \/ HandlerReturns

SpecApp == InitApp /\ [][NextApp]_vars

\* SpecArity: one Route whose handlers declare from no to five parameters,
\* registered one at a time with route.all(), then dispatched once.
ArityHandlers == {Fn("h0", 0), Fn("h1", 3), Fn("eh", 4), Fn("h5", 5)}

NextArity ==
  \/ \E fn \in ArityHandlers : RouteAll(<<fn>>)
  \/ Dispatch("GET")
  \/ \E v \in {Undef, "e1"} : HandlerCallsNext(v)
  \/ HandlerThrows("e1")
  \/ HandlerReturns

SpecArity == Init /\ [][NextArity]_vars

\* SpecAll: routes registered with app.all() and app[method]() on one
\* application, then one request of any method handled.
AllHandleLists == {<<Fn("h1", 3)>>, <<Fn("h1", 3), Fn("h2", 3)>>,
                   <<NotAFunction>>}

NextAll ==
  \/ \E p \in Paths, hs \in AllHandleLists : AppAll(p, hs)
  \/ \E m \in AppVerbs : AppVerb(m, "/foo", <<Fn("h3", 3)>>)
  \/ \E m \in ReqMethods, p \in Paths : AppHandle(m, p, FALSE)
  \/ \E v \in {Undef, "e1"} : HandlerCallsNext(v)
  \/ HandlerThrows("e1")
  \/ HandlerReturns

SpecAll == InitApp /\ [][NextAll]_vars

\* SpecMount: applications mounted in a chain with use() (application a + 1
\* on application a), handlers and error handlers registered with use(),
\* routes registered on any of them, then one request handled by the first
\* application.
MountValues == {Undef, "e1", SigRouter}
UseHandlers == {Fn("m", 3), Fn("em", 4)}
MountPaths == {"/", "/blog"}
RECURSIVE SumLayers(_)
SumLayers(S) ==
  IF S = {} THEN 0
  ELSE LET a == CHOOSE x \in S : TRUE
       IN Len(router[a].stack) + SumLayers(S \ {a})
Attached(a) ==
  /\ a = 1 \/ apps[a].parent # 0
  /\ SumLayers(AppIds) < MaxLayers

NextMount ==
  \/ \E a \in AppIds, fn \in UseHandlers :
       Attached(a) /\ AppUse(a, NoPathArg, <<PlainArg(fn)>>)
  \/ \E a \in AppIds, b \in AppIds, p \in MountPaths :
       Attached(a) /\ b = a + 1 /\ AppUse(a, p, <<AppArg(b)>>)
  \/ \E a \in AppIds :
       Attached(a) /\ AppVerbOn(a, "get", "/foo", <<Fn("h1", 3), Fn("eh", 4)>>)
  \/ \E p \in {"/foo", "/blog/foo"} : AppHandle("GET", p, FALSE)
  \/ \E v \in MountValues : HandlerCallsNext(v)
  \/ HandlerThrows("e1")
  \/ HandlerReturns
  \/ \E v \in MountValues : UseHandlerCallsNext(v)
  \/ UseHandlerThrows("e1")
  \/ UsePromiseRejects(Undef)
  \/ UseHandlerReturns

SpecMount == InitApp /\ [][NextMount]_vars

\* SpecTree: applications mounted on one another with use(), with and
\* without a path; no request.
TreePaths == {NoPathArg, "/blog", "/admin"}
TreeCalls ==
  {<<p, <<AppArg(b)>>>> : p \in TreePaths, b \in AppIds}
    \cup {<<NoPathArg, <<PlainArg(Fn("m", 3))>>>>, <<NoPathArg, <<>>>>}

NextTree ==
  \E a \in AppIds, call \in TreeCalls :
     /\ SumLayers(AppIds) < MaxApps
     /\ AppUse(a, call[1], call[2])

SpecTree == InitApp /\ [][NextTree]_vars

\* SpecUse: what use() takes for a sub-application: functions, a bare
\* Router, an object with set only, and applications, passed one or two at
\* a time.
UseArgs ==
  {PlainArg(Fn("m", 3)), BareRouterArg, SetOnlyArg} \cup {AppArg(b) : b \in AppIds}
UseArgLists ==
  {<<x>> : x \in UseArgs} \cup {<<BareRouterArg, AppArg(b)>> : b \in AppIds}
UsePaths == {NoPathArg, "/blog"}

NextUse ==
  \E a \in AppIds, p \in UsePaths, fns \in UseArgLists :
     /\ SumLayers(AppIds) < MaxRoutes
     /\ AppUse(a, p, fns)

SpecUse == InitApp /\ [][NextUse]_vars

\* SpecSet: set(setting, val) called on one application with every kind of
\* value of the three compiled settings, and with a plain setting.
SetCalls ==
  {<<"etag", v>> : v \in {JsTrue, "weak", "strong", JsFalse, CustomFn, "bogus"}}
    \cup {<<"query parser", v>> :
            v \in {JsTrue, "simple", "extended", JsFalse, CustomFn, "bogus"}}
    \cup {<<"trust proxy", v>> : v \in {JsTrue, JsFalse, CustomFn}}
    \cup {<<"title", "My Site">>}

NextSet == \E call \in SetCalls : AppSet(1, call[1], call[2])

SpecSet == InitApp /\ [][NextSet]_vars

\* SpecInherit: applications mounted in a chain (application a + 1 on
\* application a) and settings set on any of them, before and after the
\* mounts.
InheritCalls ==
  {<<"title", v>> : v \in {"My Site", "Blog"}}
    \cup {<<"etag", v>> : v \in {"strong", JsFalse}}
    \cup {<<"trust proxy", v>> : v \in {JsTrue, JsFalse}}
RECURSIVE SumSets(_)
SumSets(S) ==
  IF S = {} THEN 0
  ELSE LET a == CHOOSE x \in S : TRUE
       IN Cardinality(apps[a].userSet) + SumSets(S \ {a})

NextInherit ==
  \/ \E a \in AppIds, call \in InheritCalls :
       /\ call[1] \in apps[a].userSet \/ SumSets(AppIds) < MaxSets
       /\ AppSet(a, call[1], call[2])
  \/ \E a \in AppIds, b \in AppIds :
       b = a + 1 /\ AppUse(a, "/blog", <<AppArg(b)>>)

SpecInherit == InitApp /\ [][NextInherit]_vars

\* SpecMatch: one Layer constructed for a pattern, then match() called on
\* it with one path after another.
NextMatch ==
  \/ \E pattern \in Patterns : NewMatchLayer(pattern)
  \/ \E path \in ReqPaths : Match(path)

SpecMatch == InitApp /\ [][NextMatch]_vars

\* SpecSendFile: one res.sendFile(path, fn) transfer, the file stream's
\* events and the response's finish arriving in every order.
NextSendFile ==
  \/ SendFile
  \/ \E ev \in FileEvents, err \in FileErrors : FileEmits(ev, err)
  \/ \E err \in FinishErrors : ResponseFinished(err)
  \/ RunImmediate

SpecSendFile == InitApp /\ [][NextSendFile]_vars

\* SpecConcurrent: two requests in flight through one Route, their handlers
\* ending in every interleaving.
ConcurrentMethods == {"GET", "HEAD"}
ConcurrentValues == {Undef, "e1"}

NextConcurrent ==
  \/ \E fn \in RouteHandlers :
       Len(routes[1].stack) < MaxArgs /\ RouteAll(<<fn>>)
  \/ \E m \in RouteVerbs, fn \in RouteHandlers :
       Len(routes[1].stack) < MaxArgs /\ RouteVerb(m, <<fn>>)
  \/ \E m \in ConcurrentMethods : FirstDispatch(m)
  \/ \E m \in ConcurrentMethods : SecondDispatch(m)
  \/ \E kind \in Completions, v \in ConcurrentValues : FirstCompletes(kind, v)
  \/ \E kind \in Completions, v \in ConcurrentValues : SecondCompletes(kind, v)

SpecConcurrent == Init /\ [][NextConcurrent]_vars

\* SpecHead: routes registered with app.get / app.head, the etag setting
\* changed or not, then one GET or HEAD request whose handlers answer with
\* res.send or pass the request on.
HeadVerbs == {"get", "head"}
HeadMethods == {"GET", "HEAD"}
EtagSettings == {JsFalse, "strong"}

NextHead ==
  \/ \E m \in HeadVerbs : AppVerb(m, "/foo", <<Fn("h1", 3)>>)
  \/ \E v \in EtagSettings : AppSet(1, "etag", v)
  \/ \E m \in HeadMethods, inm \in IfNoneMatches : AppRequest(m, "/foo", inm)
  \/ \E body \in Bodies : HandlerSends(body)
  \/ HandlerCallsNext(Undef)

SpecHead == InitApp /\ [][NextHead]_vars

\* SpecLive: one Route whose handlers all complete by calling next, by
\* throwing or by returning a promise that rejects, and do so eventually.
LiveValues == {Undef, "e1", SigRoute}

HandlerCompletes ==
  \E v \in LiveValues :
     HandlerCallsNext(v) \/ HandlerThrows(v) \/ PromiseRejects(v)

NextLive ==
  \/ \E fn \in RouteHandlers : RouteAll(<<fn>>)
  \/ \E m \in RouteVerbs, fn \in RouteHandlers : RouteVerb(m, <<fn>>)
  \/ \E m \in ReqMethods : Dispatch(m)
  \/ HandlerCompletes

SpecLive == Init /\ [][NextLive]_vars /\ WF_vars(HandlerCompletes)

\* SpecRouter: the operations that need the root Router (use, route, a
\* per-method call, param, handle) on one application, in any order, with
\* the two routing settings changed before and after.
RoutingKeys == {"case sensitive routing", "strict routing"}

NextRouter ==
  \/ \E k \in RoutingKeys, v \in {JsTrue, JsFalse} : AppSet(1, k, v)
  \/ AppUse(1, NoPathArg, <<PlainArg(Fn("m", 3))>>)
  \/ AppRoute("/foo")
  \/ AppVerb("get", "/foo", <<Fn("h1", 3)>>)
  \/ AppParam("id")
  \/ AppHandle("GET", "/foo", FALSE)
  \/ HandlerCallsNext(Undef)
  \/ UseHandlerCallsNext(Undef)
  \/ RequestOver

SpecRouter == InitApp /\ [][NextRouter]_vars

\* SpecHeaders: res.set and res.append called on one field of one response,
\* with strings (the empty one too) and arrays.
HeaderValues ==
  {StrVal("a"), StrVal("b"), StrVal(""), ArrVal(<<"c", "d">>)}

NextHeaders ==
  \/ \E val \in HeaderValues : CallsSet("Link", val)
  \/ \E val \in HeaderValues : CallsAppend("Link", val)

SpecHeaders == InitApp /\ [][NextHeaders]_vars


\* =================================================================== claims
\* What the claims speak of, read off the state without the dispatch code.
RootRoutes == [i \in DOMAIN router[1].stack |-> router[1].stack[i].route]
StackOf(r) == routes[r].stack
TagOf(r, i) == routes[r].stack[i].method
ParamsOf(r, i) == routes[r].stack[i].handle.length
NameOf(r, i) == routes[r].stack[i].handle.name
HasTag(r, tag) == \E i \in DOMAIN StackOf(r) : TagOf(r, i) = tag

\* the normalized request method: lower case, HEAD standing for GET when
\* the Route has no layer registered under head
WantedMethod(r) ==
  LET m == ToLowerCase(req.method)
  IN IF m = "head" /\ ~HasTag(r, "head") THEN "get" ELSE m

FitPositions(r) ==
  {i \in DOMAIN StackOf(r) : TagOf(r, i) = Undef \/ TagOf(r, i) = WantedMethod(r)}

WasOffered(r, i) == \E k \in DOMAIN hist.offered :
                       hist.offered[k] = [route |-> r, pos |-> i]
HasContinued(r, i) == \E k \in DOMAIN hist.continued :
                         hist.continued[k] = [route |-> r, pos |-> i]
InvokedNames ==
  [k \in DOMAIN hist.invoked |->
     NameOf(hist.invoked[k].route, hist.invoked[k].pos)]

\* C1: Route.dispatch offers the request to the layers whose method tag is
\* absent or equals the normalized request method, in registration order:
\* a layer is reached only after every fitting layer before it was reached
\* and called its continuation, and a layer that does not fit is never
\* reached.
C1_RegistrationOrder ==
  LET off == hist.offered
  IN /\ \A k \in DOMAIN off : off[k].pos \in FitPositions(1)
     /\ \A j, k \in DOMAIN off : j < k => off[j].pos < off[k].pos
     /\ \A k \in DOMAIN off : \A i \in FitPositions(1) :
          i < off[k].pos =>
            /\ \E j \in 1..(k - 1) : off[j].pos = i
            /\ HasContinued(1, i)

C1_Witness ==
  /\ d.phase = "done"
  /\ Len(StackOf(1)) = 3
  /\ 2 \notin FitPositions(1)
  /\ hist.offered = <<[route |-> 1, pos |-> 1], [route |-> 1, pos |-> 3]>>
  /\ Len(hist.invoked) = 2

\* C2: after app.get('/foo', h1) and app.post('/foo', h1, h2), GET /foo
\* invokes h1 once and never h2; POST /foo invokes h1 and, once h1 called
\* next(), h2; DELETE /foo invokes neither and reaches the finalizer with no
\* error.
C2_Scenario ==
  appCalls = <<[api |-> "get", path |-> "/foo", handles |-> <<Fn("h1", 3)>>],
               [api |-> "post", path |-> "/foo",
                handles |-> <<Fn("h1", 3), Fn("h2", 3)>>]>>

C2_GetPostDelete ==
  (C2_Scenario /\ h.phase # "off" /\ req.path = "/foo") =>
    /\ req.method = "GET" => InvokedNames = <<"h1">>
    /\ req.method = "POST" =>
         /\ InvokedNames \in {<<"h1">>, <<"h1", "h2">>}
         /\ Len(hist.invoked) = 2 =>
              HasContinued(hist.invoked[1].route, hist.invoked[1].pos)
         /\ (hist.last.kind = "next" /\ hist.last.val = Undef
               /\ NameOf(hist.last.route, hist.last.pos) = "h1")
              => InvokedNames = <<"h1", "h2">>
    /\ req.method = "DELETE" =>
         /\ hist.invoked = <<>>
         /\ h.phase = "done"
         /\ h.doneArgs = <<Undef>>

C2_Witness ==
  /\ C2_Scenario
  /\ req.method = "POST"
  /\ InvokedNames = <<"h1", "h2">>
  /\ hist.last.kind = "next"

\* C3: Route.dispatch on a Route with an empty stack calls done() with no
\* error and invokes nothing, so a request whose matching routes are all
\* empty reaches the finalizer once, with no error.
EmptyRoute(r) == routes[r].stack = <<>>

C3_EmptyRouteDefers ==
  /\ \A k \in DOMAIN hist.routeDone :
       EmptyRoute(hist.routeDone[k].route) => hist.routeDone[k].arg = Undef
  /\ (/\ h.phase # "off"
      /\ \A i \in DOMAIN RootRoutes :
           routes[RootRoutes[i]].path = req.path => EmptyRoute(RootRoutes[i]))
       => /\ h.phase = "done"
          /\ h.doneArgs = <<Undef>>
          /\ hist.invoked = <<>>
          /\ Len(hist.routeDone) <= Len(RootRoutes)

C3_Witness ==
  /\ h.phase = "done"
  /\ Len(hist.routeDone) = 2
  /\ \A k \in DOMAIN hist.routeDone : EmptyRoute(hist.routeDone[k].route)
  /\ h.doneArgs = <<Undef>>

\* C4: on a HEAD request a Route without a handler registered under head
\* offers the request to exactly the layers a GET request reaches (untagged
\* and get-tagged); a Route with a handler registered under head reaches no
\* get-tagged layer and reaches the head-tagged ones.
C4_HeadFallsBackToGet ==
  (d.phase # "idle" /\ req.method = "HEAD") =>
    LET want == IF HasTag(1, "head") THEN "head" ELSE "get"
        fit == {i \in DOMAIN StackOf(1) : TagOf(1, i) \in {Undef, want}}
        off == hist.offered
    IN /\ \A k \in DOMAIN off : off[k].pos \in fit
       /\ \A k \in DOMAIN off : \A i \in fit :
            i < off[k].pos => \E j \in 1..(k - 1) : off[j].pos = i
       /\ fit # {} => off # <<>>
       /\ (d.phase = "done" /\ hist.last.kind = "none") =>
            \A i \in fit : WasOffered(1, i)

C4_Witness ==
  /\ req.method = "HEAD"
  /\ ~HasTag(1, "head")
  /\ \E k \in DOMAIN hist.invoked : TagOf(1, hist.invoked[k].pos) = "get"

C4_WitnessOverride ==
  /\ req.method = "HEAD"
  /\ HasTag(1, "head") /\ HasTag(1, "get")
  /\ \E k \in DOMAIN hist.invoked : TagOf(1, hist.invoked[k].pos) = "head"


\* C5: when a handler calls next('route'), the Route calls done() with no
\* error and reaches none of its later layers for this request; the Router
\* goes on to the layers registered after the Route.
RouterPos(r) == CHOOSE i \in DOMAIN RootRoutes : RootRoutes[i] = r

LaterRoutes(r) ==
  {j \in DOMAIN RootRoutes :
     /\ j > RouterPos(r)
     /\ routes[RootRoutes[j]].path = req.path
     /\ FitPositions(RootRoutes[j]) # {}}

Min(S) == CHOOSE x \in S : \A y \in S : x <= y

IsRouteExit(e) ==
  e.by.kind = "next" /\ e.by.val = SigRoute /\ e.by.route = e.route

C5_NextRoute ==
  /\ (hist.last.kind = "next" /\ hist.last.val = SigRoute) =>
       \E k \in DOMAIN hist.routeDone :
          /\ hist.routeDone[k].by = hist.last
          /\ hist.routeDone[k].route = hist.last.route
  /\ \A k \in DOMAIN hist.routeDone :
       LET e == hist.routeDone[k]
       IN IsRouteExit(e) =>
            /\ e.arg = Undef
            /\ \A j \in DOMAIN hist.routeDone :
                 hist.routeDone[j].route = e.route => j = k
            /\ ~\E j \in DOMAIN hist.offered :
                  /\ hist.offered[j].route = e.route
                  /\ hist.offered[j].pos > e.by.pos
            /\ IF LaterRoutes(e.route) = {}
               THEN h.phase = "done" /\ h.doneArgs = <<Undef>>
               ELSE \E j \in DOMAIN hist.invoked :
                      hist.invoked[j].route =
                        RootRoutes[Min(LaterRoutes(e.route))]

C5_Witness ==
  \E k \in DOMAIN hist.routeDone :
     LET e == hist.routeDone[k]
     IN /\ IsRouteExit(e)
        /\ e.by.pos < Len(StackOf(e.route))
        /\ e.by.pos + 1 \in FitPositions(e.route)
        /\ LaterRoutes(e.route) # {}
        /\ \E j \in DOMAIN hist.invoked : hist.invoked[j].route # e.route

\* C6: once a handler has signalled an error e, the Route invokes no request
\* handler: the next handler invoked is the first later layer that fits the
\* request and declares four parameters, it receives e, and when there is
\* none done is called with e.
IsErrorValue(v) == v \notin {Undef, Zero, SigRoute, SigRouter}

ErrorHandlersAfter(r, p) ==
  {i \in FitPositions(r) : i > p /\ ParamsOf(r, i) = 4}

LastInvoked == hist.invoked[Len(hist.invoked)]

ErrorModeAfter(r, p, e) ==
  IF ErrorHandlersAfter(r, p) = {}
  THEN /\ d.phase = "done"
       /\ d.doneArgs = <<e>>
       /\ LastInvoked.pos = p
  ELSE /\ d.phase = "running"
       /\ d.cur = Min(ErrorHandlersAfter(r, p))
       /\ d.curErr = e
       /\ LastInvoked = [app |-> h.app, route |-> r,
                         pos |-> Min(ErrorHandlersAfter(r, p)),
                         mode |-> "error", err |-> e]

C6_ErrorMode ==
  /\ (hist.last.kind \in {"next", "throw", "reject"}
        /\ IsErrorValue(hist.last.val))
       => ErrorModeAfter(1, hist.last.pos, hist.last.val)
  /\ \A k \in DOMAIN hist.invoked :
       LET e == hist.invoked[k]
       IN /\ e.mode = "error" => ParamsOf(1, e.pos) = 4 /\ e.err # Undef
          /\ e.mode = "request" => ParamsOf(1, e.pos) < 4 /\ e.err = Undef

C6_Witness ==
  /\ hist.last.kind = "next"
  /\ hist.last.val = "e1"
  /\ hist.last.pos = 1
  /\ Len(StackOf(1)) = 3
  /\ ParamsOf(1, 2) = 3 /\ 2 \in FitPositions(1)
  /\ d.phase = "running" /\ d.cur = 3 /\ d.curErr = "e1"

\* C7: a handler that throws e leaves the dispatch where a handler calling
\* next(e) in its place leaves it: the same layers reached and handlers
\* invoked, with the same errors, and the same done calls.
TwinView(c) ==
  [d |-> c.d, h |-> c.h, req |-> c.req,
   offered |-> c.hist.offered, invoked |-> c.hist.invoked,
   continued |-> c.hist.continued,
   done |-> [k \in DOMAIN c.hist.routeDone |->
               [route |-> c.hist.routeDone[k].route,
                arg |-> c.hist.routeDone[k].arg]],
   called |-> c.hist.last.called, arg |-> c.hist.last.arg]

C7_ThrowIsNext == TwinView(Ctx) = TwinView(twin)

C7_Witness ==
  /\ hist.last.kind = "throw"
  /\ twin.hist.last.kind = "next"
  /\ hist.last.val = "e1"
  /\ d.phase = "running"
  /\ d.curErr = "e1"

\* C8 as claimed: a rejection that carries a value passes that value to the
\* continuation, one without a value passes Error('Rejected promise'), and
\* dispatch goes on in error mode with it.
C8_AsClaimed ==
  hist.last.kind = "reject" =>
    /\ hist.last.called
    /\ hist.last.arg = IF hist.last.val # Undef THEN hist.last.val
                       ELSE RejectedPromise
    /\ hist.last.arg \notin {SigRoute, SigRouter}
         => ErrorModeAfter(1, hist.last.pos, hist.last.arg)

\* C8: when the promise a handler returned rejects, the layer calls the
\* continuation with the rejection value if that value is truthy and with
\* Error('Rejected promise') otherwise (no value, or a falsy one such as 0);
\* dispatch goes on as after next(x) with that argument x: in error mode,
\* unless x is 'route' or 'router', which ends the Route's dispatch.
C8_RejectedPromise ==
  hist.last.kind = "reject" =>
    LET x == IF hist.last.val \in {Undef, Zero} THEN RejectedPromise
             ELSE hist.last.val
    IN /\ hist.last.called
       /\ hist.last.arg = x
       /\ CASE x = SigRoute -> d.phase = "done" /\ d.doneArgs = <<Undef>>
            [] x = SigRouter -> d.phase = "done" /\ d.doneArgs = <<SigRouter>>
            [] OTHER -> ErrorModeAfter(1, hist.last.pos, x)

C8_Witness ==
  /\ hist.last.kind = "reject"
  /\ hist.last.val = Undef
  /\ d.phase = "running"
  /\ d.curErr = RejectedPromise
  /\ Len(hist.invoked) = 3
  /\ hist.invoked[2].mode = "error"

\* C9: a handler whose returned promise resolves, and that did not call its
\* continuation, leaves the dispatch where it is: no later layer is reached
\* and done is not called.
C9_ResolvedPromise ==
  hist.last.kind = "resolve" =>
    /\ ~hist.last.called
    /\ d.phase = "hung"
    /\ d.doneArgs = <<>>
    /\ hist.offered[Len(hist.offered)].pos = hist.last.pos
    /\ LastInvoked.pos = hist.last.pos
    /\ ~HasContinued(1, hist.last.pos)

C9_Witness ==
  /\ hist.last.kind = "resolve"
  /\ LastInvoked.mode = "error"
  /\ \E i \in FitPositions(1) : i > hist.last.pos

\* C10: when an error handler that is handling e1 throws e2, or returns a
\* promise that rejects with e2, the next error handler receives e2.
HandledBy(p) ==
  CHOOSE e \in {hist.invoked[k] : k \in DOMAIN hist.invoked} : e.pos = p

C10_NewError ==
  (/\ hist.last.kind \in {"throw", "reject"}
   /\ IsErrorValue(hist.last.val)
   /\ HandledBy(hist.last.pos).mode = "error")
    => ErrorModeAfter(1, hist.last.pos, hist.last.val)

C10_Witness ==
  /\ hist.last.kind = "reject"
  /\ hist.last.val = "e2"
  /\ HandledBy(hist.last.pos).err = "e1"
  /\ d.phase = "running"
  /\ d.curErr = "e2"

\* C11: an error is offered to error handlers innermost scope first.  After
\* a handler signalled the error e, the handler that runs next is the first
\* later four-parameter handler of the same Route; when the Route has none,
\* the first four-parameter handler registered with use() after the Route on
\* the owning application; when that application has none, the first one
\* registered after the mount on the mounting application, and so on up the
\* mount chain; it receives e unchanged; when no scope has one, the
\* finalizer receives e.
LayerIndex(a, r, b) ==
  CHOOSE i \in DOMAIN router[a].stack :
     /\ router[a].stack[i].route = r
     /\ router[a].stack[i].app = b

UseErrorHandlersAfter(a, i) ==
  {j \in DOMAIN router[a].stack :
     /\ j > i
     /\ router[a].stack[j].kind = "fn"
     /\ router[a].stack[j].handle.length = 4}

RECURSIVE ErrorScopeFrom(_, _)
ErrorScopeFrom(a, i) ==
  IF UseErrorHandlersAfter(a, i) # {}
  THEN [app |-> a, route |-> 0, pos |-> Min(UseErrorHandlersAfter(a, i))]
  ELSE IF apps[a].parent = 0 THEN [app |-> 0, route |-> 0, pos |-> 0]
  ELSE ErrorScopeFrom(apps[a].parent, LayerIndex(apps[a].parent, 0, a))

ErrorScopeAfter(l) ==
  IF l.route # 0 /\ ErrorHandlersAfter(l.route, l.pos) # {}
  THEN [app |-> l.app, route |-> l.route,
        pos |-> Min(ErrorHandlersAfter(l.route, l.pos))]
  ELSE ErrorScopeFrom(l.app, IF l.route # 0 THEN LayerIndex(l.app, l.route, 0)
                             ELSE l.pos)

C11_InnermostFirst ==
  (hist.last.called /\ IsErrorValue(hist.last.arg)) =>
    LET e == hist.last.arg
        t == ErrorScopeAfter(hist.last)
    IN IF t.app = 0
       THEN h.phase = "done" /\ h.doneArgs = <<e>> /\ h.up = <<>>
       ELSE /\ LastInvoked = [app |-> t.app, route |-> t.route, pos |-> t.pos,
                              mode |-> "error", err |-> e]
            /\ h.app = t.app
            /\ IF t.route # 0 THEN d.phase = "running" /\ d.cur = t.pos
               ELSE h.phase = "running" /\ h.cur = t.pos

\* a Route's error handler, then the owning application's, then the
\* mounting application's have been offered the error in turn
C11_Witness ==
  /\ Len(hist.invoked) >= 4
  /\ LET n == Len(hist.invoked)
     IN /\ hist.invoked[n].mode = "error" /\ hist.invoked[n].app = 1
        /\ hist.invoked[n].err = "e1"
        /\ hist.invoked[n - 1].mode = "error" /\ hist.invoked[n - 1].app = 2
        /\ hist.invoked[n - 1].route = 0
        /\ hist.invoked[n - 2].mode = "error" /\ hist.invoked[n - 2].app = 2
        /\ hist.invoked[n - 2].route # 0

\* the error of a Route two mounts down reaches the first application
C11_WitnessChain ==
  /\ h.phase = "running" /\ h.app = 1 /\ h.curErr = "e1"
  /\ hist.last.app = 3 /\ hist.last.route # 0

\* C12: when a handler of a Route calls next('router'), the Route calls
\* done('router') and reaches none of its later layers; no further layer of
\* the owning application runs for the request; the application that
\* mounted it goes on after the mount without an error (its next plain
\* handler runs in normal mode), and with no mounting application the
\* finalizer is called without an error.
IsRouterExit(l) == l.kind = "next" /\ l.val = SigRouter /\ l.route # 0

PlainLayersAfter(a, i) ==
  {j \in DOMAIN router[a].stack :
     /\ j > i
     /\ router[a].stack[j].kind = "fn"
     /\ router[a].stack[j].handle.length < 4
     /\ \A k \in (i + 1)..(j - 1) : router[a].stack[k].kind = "fn"}

C12_NextRouter ==
  IsRouterExit(hist.last) =>
    LET l == hist.last
        P == apps[l.app].parent
        n == Len(hist.routeDone)
    IN /\ n > 0
       /\ hist.routeDone[n] = [route |-> l.route, arg |-> SigRouter, by |-> l]
       /\ ~\E j \in DOMAIN hist.offered :
             hist.offered[j].route = l.route /\ hist.offered[j].pos > l.pos
       /\ \/ /\ LastInvoked.app = l.app
             /\ LastInvoked.route = l.route
             /\ LastInvoked.pos = l.pos
          \/ /\ LastInvoked.app # l.app
             /\ LastInvoked.mode = "request"
       /\ h.phase = "done" => h.doneArgs = <<Undef>>
       /\ P = 0 => h.phase = "done"
       /\ (P # 0 /\ PlainLayersAfter(P, LayerIndex(P, 0, l.app)) # {}) =>
            /\ h.phase = "running" /\ h.app = P
            /\ LastInvoked =
                 [app |-> P, route |-> 0,
                  pos |-> Min(PlainLayersAfter(P, LayerIndex(P, 0, l.app))),
                  mode |-> "request", err |-> Undef]

C12_Witness ==
  /\ IsRouterExit(hist.last)
  /\ hist.last.app = 2
  /\ hist.last.pos < Len(StackOf(hist.last.route))
  /\ router[2].stack[Len(router[2].stack)].kind = "fn"
  /\ LayerIndex(2, hist.last.route, 0) < Len(router[2].stack)
  /\ h.phase = "running" /\ h.app = 1 /\ h.curMode = "request"

\* C13 (as claimed): every handler that does not declare four parameters is
\* a request handler, so in normal dispatch the handler that runs next is
\* the first later layer that does not declare four parameters.
LayersAfter(r, p, S) == {j \in DOMAIN StackOf(r) : j > p /\ ParamsOf(r, j) \in S}

NormalModeAfter(r, p, S) ==
  IF LayersAfter(r, p, S) = {}
  THEN d.phase = "done" /\ d.doneArgs = <<Undef>>
  ELSE /\ d.phase = "running"
       /\ d.cur = Min(LayersAfter(r, p, S))
       /\ d.curMode = "request"

InNormalMode ==
  /\ d.phase # "idle"
  /\ \/ hist.last.kind = "none"
     \/ hist.last.called /\ hist.last.arg = Undef

C13_AsClaimed ==
  InNormalMode => NormalModeAfter(1, hist.last.pos, (0..8) \ {4})

\* C13: a handler that declares four parameters is an error handler: it runs
\* only with an error in flight and is the only kind that does; a handler
\* that declares at most three parameters is a request handler: it runs
\* only in normal dispatch, as soon as it is the first such layer after the
\* one that called next(); a handler that declares five or more parameters
\* has neither role and is never run.
C13_ArityRoles ==
  /\ InNormalMode => NormalModeAfter(1, hist.last.pos, 0..3)
  /\ (hist.last.called /\ IsErrorValue(hist.last.arg)) =>
       IF LayersAfter(1, hist.last.pos, {4}) = {}
       THEN d.phase = "done" /\ d.doneArgs = <<hist.last.arg>>
       ELSE /\ d.phase = "running"
            /\ d.cur = Min(LayersAfter(1, hist.last.pos, {4}))
            /\ d.curMode = "error"
  /\ \A k \in DOMAIN hist.invoked :
       LET e == hist.invoked[k]
       IN /\ e.mode = "error" <=> ParamsOf(1, e.pos) = 4
          /\ e.mode = "request" <=> ParamsOf(1, e.pos) <= 3
          /\ ParamsOf(1, e.pos) < 5

\* a five-parameter handler was offered the request and passed over
C13_Witness ==
  /\ Len(StackOf(1)) = 3
  /\ ParamsOf(1, 2) = 5
  /\ hist.offered = <<[route |-> 1, pos |-> 1], [route |-> 1, pos |-> 2],
                      [route |-> 1, pos |-> 3]>>
  /\ Len(hist.invoked) = 2
  /\ hist.invoked[2].pos = 3

\* C14: every registration call on a Route, route.all(...) and
\* route[method](...) alike, that is given an argument that is not a
\* function throws a TypeError.
HasNonFunction(handles) == \E i \in DOMAIN handles : handles[i] = NotAFunction

C14_TypeError ==
  [][\A hs \in HandleLists(RouteHandlers \cup {NotAFunction}) :
       (/\ HasNonFunction(hs)
        /\ \/ RouteAll(hs)
           \/ \E m \in RouteVerbs : RouteVerb(m, hs))
         => raised' = "TypeError"]_vars

\* C15: after app.all(path, h) a request for path, whatever its method
\* (HEAD included), invokes h, and invokes it once only although h sits
\* on the Route once per method.  Calls of appCalls and Routes correspond
\* one to one in SpecAll; TimesInvoked counts the calls of one handler of
\* one Route during the request.
TimesInvoked(r, fn) ==
  Cardinality({k \in DOMAIN hist.invoked :
                 /\ hist.invoked[k].route = r
                 /\ routes[r].stack[hist.invoked[k].pos].handle = fn})
IsAllCall(k) ==
  /\ appCalls[k].api = "all"
  /\ \A j \in DOMAIN appCalls[k].handles : IsFunction(appCalls[k].handles[j])
GivenToRoute(r) ==
  \/ d.route = r
  \/ \E k \in DOMAIN hist.routeDone : hist.routeDone[k].route = r

C15_AllOnce ==
  \A k \in DOMAIN appCalls :
     IsAllCall(k) =>
       /\ \A j \in DOMAIN appCalls[k].handles :
            TimesInvoked(k, appCalls[k].handles[j]) <= 1
       /\ GivenToRoute(k) => TimesInvoked(k, appCalls[k].handles[1]) = 1
       /\ (k = 1 /\ h.phase # "off" /\ req.path = appCalls[k].path)
            => TimesInvoked(k, appCalls[k].handles[1]) = 1

\* a HEAD request went through both handlers of the app.all() Route, each
\* called once, and the Route is done
C15_Witness ==
  /\ Len(appCalls) >= 1
  /\ IsAllCall(1)
  /\ Len(appCalls[1].handles) = 2
  /\ req.method = "HEAD"
  /\ \E k \in DOMAIN hist.routeDone : hist.routeDone[k].route = 1
  /\ \A j \in 1..2 : TimesInvoked(1, appCalls[1].handles[j]) = 1

\* C16: in a mount tree built with use(), a mounted application's
\* mountpath is the path given to use() ('/' when none was given) and its
\* parent the application use() was called on; an application that was
\* not mounted has no parent and mountpath '/'; path() is the mountpaths
\* from the root's child down to the application, concatenated ('' for
\* the root).
RECURSIVE RootDown(_)
RootDown(a) ==
  IF apps[a].parent = 0 THEN <<>> ELSE Append(RootDown(apps[a].parent), a)
RECURSIVE Concatenated(_)
Concatenated(seq) ==
  IF seq = <<>> THEN ""
  ELSE apps[Head(seq)].mountpath \o Concatenated(Tail(seq))
GivenPath(p) == IF p = NoPathArg THEN "/" ELSE p

C16_TreeShape ==
  \A a \in AppIds :
     /\ apps[a].parent = 0 => apps[a].mountpath = "/" /\ AppPath(apps, a) = ""
     /\ AppPath(apps, a) = Concatenated(RootDown(a))

C16_MountStep ==
  \A a \in AppIds, call \in TreeCalls :
     AppUse(a, call[1], call[2]) =>
       \A b \in AppIds :
          IF \E i \in DOMAIN call[2] : call[2][i] = AppArg(b)
          THEN apps'[b].mountpath = GivenPath(call[1]) /\ apps'[b].parent = a
          ELSE /\ apps'[b].mountpath = apps[b].mountpath
               /\ apps'[b].parent = apps[b].parent

C16_MountTree == []C16_TreeShape /\ [][C16_MountStep]_vars

\* an application mounted at /admin on one mounted at /blog
C16_Witness ==
  \E a, b \in AppIds :
     /\ apps[b].parent = a /\ apps[a].parent # 0
     /\ apps[a].mountpath = "/blog" /\ apps[b].mountpath = "/admin"
     /\ AppPath(apps, b) = "/blog/admin"

\* C17: use() mounts an argument as a sub-application (mountpath, parent,
\* the 'mount' event) exactly when the argument has both a handle method
\* and a set method; every other argument, a bare Router with handle and
\* no set included, becomes a plain handler layer and no mountpath or
\* parent changes.
ExposesBoth(arg) == arg.handle /\ arg.set

C17_UseStep ==
  \A a \in AppIds, p \in UsePaths, fns \in UseArgLists :
     AppUse(a, p, fns) =>
       /\ \A i \in DOMAIN fns :
            LET layer == router'[a].stack[Len(router[a].stack) + i]
            IN IF ExposesBoth(fns[i])
               THEN /\ layer = AppLayer(GivenPath(p), fns[i].app)
                    /\ apps'[fns[i].app].mountpath = GivenPath(p)
                    /\ apps'[fns[i].app].parent = a
                    /\ apps'[fns[i].app].mounted =
                         Append(apps[fns[i].app].mounted, a)
               ELSE layer = FnLayer(GivenPath(p), fns[i].fn)
       /\ \A b \in AppIds :
            (~\E i \in DOMAIN fns : ExposesBoth(fns[i]) /\ fns[i].app = b)
               => apps'[b] = apps[b]

C17_SubAppIffHandleAndSet == [][C17_UseStep]_vars

\* a bare Router and an application passed in one call: the Router became
\* a plain layer, the application was mounted
C17_Witness ==
  \E a, b \in AppIds :
     /\ Len(router[a].stack) = 2
     /\ router[a].stack[1] = FnLayer("/blog", BareRouterArg.fn)
     /\ router[a].stack[2] = AppLayer("/blog", b)
     /\ apps[b].parent = a /\ apps[b].mountpath = "/blog"
     /\ apps[b].mounted = <<a>>

\* C20: when set(k, v) returns for k among etag, query parser and trust
\* proxy, the key k + ' fn' holds the function v compiles to: the weak
\* generator for etag true or 'weak', the strong one for 'strong'; the
\* simple parser for query parser true or 'simple', the extended one for
\* 'extended'; no function for false; a function as it is; for trust proxy,
\* trust-everything for true and the compiled empty list for false.
CompanionOf(k) ==
  CASE k = "etag" -> "etag fn"
    [] k = "query parser" -> "query parser fn"
    [] k = "trust proxy" -> "trust proxy fn"
ExpectedCompanion(k, v) ==
  IF v = CustomFn THEN CustomFn
  ELSE CASE k = "etag" /\ v \in {JsTrue, "weak"} -> Wetag
         [] k = "etag" /\ v = "strong" -> Etag
         [] k = "query parser" /\ v \in {JsTrue, "simple"} -> QuerystringParse
         [] k = "query parser" /\ v = "extended" -> ParseExtendedQueryString
         [] k \in {"etag", "query parser"} /\ v = JsFalse -> Undef
         [] k = "trust proxy" /\ v = JsTrue -> TrustAll
         [] k = "trust proxy" /\ v = JsFalse -> TrustNone

C20_SetStep ==
  \A call \in SetCalls :
     (/\ AppSet(1, call[1], call[2])
      /\ raised' = "none"
      /\ call[1] \in {"etag", "query parser", "trust proxy"})
       => /\ Lookup(apps', 1, CompanionOf(call[1]))
              = ExpectedCompanion(call[1], call[2])
          /\ Lookup(apps', 1, call[1]) = call[2]

C20_Companion == [][C20_SetStep]_vars

\* etag was set to false after 'strong' and query parser to 'simple': the
\* stored companions are no function and the simple parser
C20_Witness ==
  /\ {"etag", "query parser"} \subseteq apps[1].userSet
  /\ apps[1].own["etag"] = JsFalse
  /\ apps[1].own["etag fn"] = Undef
  /\ apps[1].own["query parser"] = "simple"
  /\ apps[1].own["query parser fn"] = QuerystringParse

\* What the settings claims speak of: the accessor of an application, the
\* keys its user has set with set() (a compiled key's companion with it),
\* and the keys every application sets for itself when it is created.
Get(a, k) == Lookup(apps, a, k)
TrustProxyKeys == {"trust proxy", "trust proxy fn"}
DefaultKeys == {"etag", "etag fn", "query parser", "query parser fn"}
CalledSet(a, k) ==
  \/ k \in apps[a].userSet
  \/ \E base \in apps[a].userSet \cap {"etag", "query parser", "trust proxy"} :
        k = CompanionOf(base)
MountedOn(c, p) == p # 0 /\ apps[c].parent = p

\* C18 as stated: for every key k, a value the parent sets after the mount
\* is what the child's accessor returns exactly when the child has never
\* set k itself, and a child that has set k returns its own value.
C18_AsClaimedStep ==
  \A p \in AppIds, c \in AppIds, call \in InheritCalls :
     (/\ MountedOn(c, p)
      /\ AppSet(p, call[1], call[2])
      /\ ~CalledSet(c, call[1]))
       => Lookup(apps', c, call[1]) = call[2]

HasOwnValue(c, k) == CalledSet(c, k) \/ k \in DefaultKeys

C18_SetOnParentStep ==
  \A p \in AppIds, c \in AppIds, call \in InheritCalls :
     (/\ MountedOn(c, p)
      /\ AppSet(p, call[1], call[2])
      /\ call[1] \notin TrustProxyKeys)
       => IF HasOwnValue(c, call[1])
          THEN Lookup(apps', c, call[1]) = apps[c].own[call[1]]
          ELSE Lookup(apps', c, call[1]) = call[2]

C18_Reads ==
  \A c \in AppIds, k \in SettingKeys \ TrustProxyKeys :
     IF HasOwnValue(c, k)
     THEN apps[c].own[k] # Absent /\ Get(c, k) = apps[c].own[k]
     ELSE apps[c].parent # 0 => Get(c, k) = Get(apps[c].parent, k)

C19_Reads ==
  \A c \in AppIds :
     IF "trust proxy" \in apps[c].userSet
     THEN \A k \in TrustProxyKeys :
            apps[c].own[k] # Absent /\ Get(c, k) = apps[c].own[k]
     ELSE apps[c].parent # 0 =>
            \A k \in TrustProxyKeys : Get(c, k) = Get(apps[c].parent, k)

C19_MountStep ==
  \A p \in AppIds, c \in AppIds :
     (/\ AppUse(p, "/blog", <<AppArg(c)>>)
      /\ "trust proxy" \in apps[c].userSet)
       => \A k \in TrustProxyKeys :
             Lookup(apps', c, k) = Lookup(apps, c, k)

C19_SetOnParentStep ==
  \A p \in AppIds, c \in AppIds, v \in {JsTrue, JsFalse} :
     (/\ MountedOn(c, p)
      /\ AppSet(p, "trust proxy", v)
      /\ "trust proxy" \notin apps[c].userSet)
       => /\ Lookup(apps', c, "trust proxy") = v
          /\ Lookup(apps', c, "trust proxy fn") = ExpectedCompanion("trust proxy", v)

C19_TrustProxy ==
  /\ []C19_Reads
  /\ [][C19_MountStep]_vars
  /\ [][C19_SetOnParentStep]_vars

\* application 2 was mounted untouched and reads the true its parent set
\* afterwards; application 3 set false before it was mounted and reads
\* its own false
C19_Witness ==
  /\ MountedOn(2, 1) /\ MountedOn(3, 2)
  /\ apps[2].userSet = {} /\ apps[3].userSet = {"trust proxy"}
  /\ apps[1].userSet = {"trust proxy"}
  /\ Get(1, "trust proxy") = JsTrue
  /\ Get(2, "trust proxy") = JsTrue /\ Get(2, "trust proxy fn") = TrustAll
  /\ Get(3, "trust proxy") = JsFalse /\ Get(3, "trust proxy fn") = TrustNone
  /\ apps[3].tpDefault = FALSE

\* C21: set('etag', v) and set('query parser', v) throw a TypeError, from
\* the set() call itself, when v is neither a function nor one of the
\* values the setting knows; with a known value or a function they return.
KnownValues(k) ==
  CASE k = "etag" -> {JsTrue, JsFalse, "weak", "strong"}
    [] k = "query parser" -> {JsTrue, JsFalse, "simple", "extended"}

C21_SetStep ==
  \A call \in SetCalls :
     (AppSet(1, call[1], call[2]) /\ call[1] \in {"etag", "query parser"})
       => IF call[2] = CustomFn \/ call[2] \in KnownValues(call[1])
          THEN raised' = "none"
          ELSE raised' = "TypeError"

C21_InvalidValueThrows == [][C21_SetStep]_vars

\* set('query parser', 'bogus') has just thrown, no request was handled
C21_Witness ==
  /\ raised = "TypeError"
  /\ apps[1].own["query parser"] = "bogus"
  /\ h.phase = "off" /\ hist.invoked = <<>>

\* C22: app.handle() on an application nothing was registered on invokes
\* no handler and calls the finalizer once, with no error.
NothingRegistered == \A a \in AppIds : router[a].stack = <<>>

C22_NoRoutes ==
  (h.phase # "off" /\ NothingRegistered) =>
     /\ hist.invoked = <<>>
     /\ hist.offered = <<>>
     /\ h.phase = "done"
     /\ h.doneArgs = <<Undef>>

\* a POST request was handled by an application without a layer
C22_Witness ==
  /\ NothingRegistered
  /\ appCalls = <<>>
  /\ req.method = "POST" /\ req.app = 1
  /\ h.phase = "done"
  /\ router[1].exists

\* C23: when the path structurally matches the layer's pattern (and can be
\* decoded), match() returns true, params holds exactly the pattern's
\* parameter names, each with the decoded text of the path segment at its
\* place, and path holds the part of the request path that matched (none
\* of it for '/' matching as a prefix).  The '*' pattern has the one
\* parameter 0, the whole path.
ParamPlaces(pattern) ==
  {i \in DOMAIN pattern.segs : pattern.segs[i].kind = "par"}
NamesOf(pattern) ==
  IF pattern.star THEN {"0"}
  ELSE {pattern.segs[i].text : i \in ParamPlaces(pattern)}
Decoded(raw) ==
  CASE raw = "a%20b" -> "a b"
    [] raw \in {"users", "42"} -> raw
StructurallyMatches(pattern, path) ==
  /\ ~path.null
  /\ \/ pattern.star
     \/ /\ IF pattern.end THEN Len(path.segs) = Len(pattern.segs)
                          ELSE Len(path.segs) >= Len(pattern.segs)
        /\ \A i \in DOMAIN pattern.segs :
             pattern.segs[i].kind = "lit" => path.segs[i] = pattern.segs[i].text
WellEncoded(pattern, path) ==
  \A i \in (IF pattern.star THEN DOMAIN path.segs ELSE ParamPlaces(pattern)) :
     path.segs[i] # "%zz"
RECURSIVE TextOf(_)
TextOf(segs) ==
  IF segs = <<>> THEN "" ELSE "/" \o Head(segs) \o TextOf(Tail(segs))
RECURSIVE DecodedTextOf(_)
DecodedTextOf(segs) ==
  IF segs = <<>> THEN ""
  ELSE "/" \o Decoded(Head(segs)) \o DecodedTextOf(Tail(segs))
Ending(path) == IF path.slash THEN "/" ELSE ""
MatchedPortion(pattern, path) ==
  IF ~pattern.star /\ ~pattern.end /\ pattern.segs = <<>> THEN ""
  ELSE IF pattern.star \/ pattern.end \/ Len(path.segs) = Len(pattern.segs)
  THEN (IF path.segs = <<>> THEN "/" ELSE TextOf(path.segs) \o Ending(path))
  ELSE TextOf(SubSeq(path.segs, 1, Len(pattern.segs)))

C24_FailedMatchClears ==
  matchLayer.ret = "false" =>
     /\ ~matchLayer.params.defined
     /\ matchLayer.params.map = <<>>
     /\ matchLayer.path = Undef

\* '/users/:id' had matched a path and was then given '/42'
C24_Witness ==
  /\ matchLayer.ret = "false"
  /\ matchLayer.matched
  /\ matchLayer.pattern = Pattern(<<Lit("users"), Par("id")>>, TRUE, FALSE)
  /\ matchLayer.arg = ReqPath(<<"42">>, FALSE)

\* C25: when the path matches the pattern and a captured segment is not
\* valid percent-encoding, match() does not return false: it throws an
\* error whose status and statusCode are 400 and whose message quotes the
\* text that could not be decoded.
CapturedTexts(pattern, path) ==
  IF pattern.star
  THEN {IF path.segs = <<>> THEN "/" ELSE TextOf(path.segs) \o Ending(path)}
  ELSE {path.segs[i] : i \in ParamPlaces(pattern)}
HasEscape(text, bad) ==
  text = bad \/ \E segs \in UNION {[1..n -> RawSegs] : n \in 1..(MaxSegs + 1)},
                   e \in {"", "/"} :
                    /\ text = TextOf(segs) \o e
                    /\ \E i \in DOMAIN segs : segs[i] = bad
Undecodable(pattern, path) ==
  {t \in CapturedTexts(pattern, path) : HasEscape(t, "%zz")}

C25_DecodeFailureThrows ==
  LET P == matchLayer.pattern
      R == matchLayer.arg
  IN (/\ matchLayer.ret # "none"
      /\ StructurallyMatches(P, R)
      /\ ~(P.segs = <<>> /\ ~P.end /\ ~P.star)
      /\ Undecodable(P, R) # {})
       => /\ matchLayer.ret = "threw"
          /\ matchLayer.err.status = 400
          /\ matchLayer.err.statusCode = 400
          /\ \E t \in Undecodable(P, R) :
                matchLayer.err.message = "Failed to decode param '" \o t \o "'"

\* '/:kind/:id' was given '/42/%zz': kind was stored, id could not be
C25_Witness ==
  /\ matchLayer.ret = "threw"
  /\ matchLayer.pattern = Pattern(<<Par("kind"), Par("id")>>, TRUE, FALSE)
  /\ matchLayer.arg = ReqPath(<<"42", "%zz">>, FALSE)
  /\ matchLayer.err.status = 400
  /\ matchLayer.err.message = "Failed to decode param '%zz'"

\* C27: after any sequence of res.set(f, v) and res.append(f, v) on one
\* field, the header holds the value of the latest set, if there was one,
\* followed by the values appended since, in call order, an array
\* contributing its elements in order.
RECURSIVE LastSet(_, _)
LastSet(calls, i) ==
  IF i = 0 THEN 0 ELSE IF calls[i].op = "set" THEN i ELSE LastSet(calls, i - 1)
RECURSIVE ValuesFrom(_, _)
ValuesFrom(calls, i) ==
  IF i > Len(calls) THEN <<>> ELSE calls[i].val.vals \o ValuesFrom(calls, i + 1)
ExpectedValues(calls) ==
  LET k == LastSet(calls, Len(calls))
  IN ValuesFrom(calls, IF k = 0 THEN 1 ELSE k)

C27_SetThenAppends ==
  res.calls # <<>> => res.headers["Link"].vals = ExpectedValues(res.calls)

\* C28: in whatever order and number the file stream's events and the
\* response's finish arrive, the callback given to res.sendFile is never
\* invoked twice, and once the response has finished and the function
\* onfinish deferred has run, it has been invoked exactly once.
C28_CallbackOnce ==
  /\ Len(res.file.fnCalls) <= 1
  /\ res.file.finished /\ ~res.file.immediate => Len(res.file.fnCalls) = 1

C28_Witness ==
  /\ res.file.finished
  /\ ~res.file.immediate
  /\ res.file.events = MaxEvents
  /\ res.file.streaming = "true"
  /\ res.file.fnCalls = <<"EISDIR">>

\* C29: a Route's stack only grows at its end: no step, dispatch included,
\* removes, replaces or reorders a layer, and a registration call, all or
\* per-method, appends one layer per handler after the existing ones, in
\* argument order and tagged with the method (up to the first argument that
\* is not a function, where the call throws).
RECURSIVE GoodPrefix(_)
GoodPrefix(handles) ==
  IF handles = <<>> \/ handles[1] = NotAFunction THEN <<>>
  ELSE <<handles[1]>> \o GoodPrefix(Tail(handles))

LayersFor(method, handles) ==
  [i \in 1..Len(GoodPrefix(handles)) |-> [method |-> method, handle |-> handles[i]]]

KeepsLayers(r) ==
  /\ Len(routes'[r].stack) >= Len(routes[r].stack)
  /\ SubSeq(routes'[r].stack, 1, Len(routes[r].stack)) = routes[r].stack

C29_Step ==
  /\ \A r \in DOMAIN routes : KeepsLayers(r)
  /\ \A hs \in HandleLists(RouteHandlers \cup {NotAFunction}) :
       /\ RouteAll(hs) => routes'[1].stack = routes[1].stack \o LayersFor(Undef, hs)
       /\ \A m \in RouteVerbs :
            RouteVerb(m, hs) => routes'[1].stack = routes[1].stack \o LayersFor(m, hs)

C29_StackOnlyGrows == [][C29_Step]_vars

C29_Witness ==
  /\ Len(routes[1].stack) = MaxStack
  /\ routes[1].stack[1] = [method |-> "get", handle |-> Fn("h1", 3)]
  /\ routes[1].stack[2] = [method |-> Undef, handle |-> Fn("eh", 4)]
  /\ hist.invoked # <<>>

\* C30: two requests dispatched through the same Route, their handlers
\* ending in any interleaving, are each offered exactly the layers, in the
\* order and with the error, that the same request with the same handler
\* outcomes is offered when it is alone: cursor, normalized method and
\* in-flight error are those of its own dispatch.
SameRun(c, solo) == c.hist = solo.hist /\ c.d = solo.d

NoHeadHandler(r) == \A i \in DOMAIN routes[r].stack : routes[r].stack[i].method # "head"

RECURSIVE FirstGetLayer(_, _)
FirstGetLayer(stack, i) ==
  IF i > Len(stack) THEN 0
  ELSE IF stack[i].method = "get" THEN i ELSE FirstGetLayer(stack, i + 1)

\* the response to GET, same request headers, same settings, the handler
\* sending the same body
GetResponse ==
  Send([NewResponse EXCEPT !.req = res.req], "GET",
       Lookup(apps, 1, "etag fn"), res.sent)

C26_HeadAnswered ==
  /\ req.method = "HEAD"
  /\ res.ended
  /\ \A r \in DOMAIN routes : NoHeadHandler(r)

C26_HeadAsGet ==
  C26_HeadAnswered =>
    /\ hist.invoked[1].route = 1
    /\ hist.invoked[1].pos = FirstGetLayer(routes[1].stack, 1)
    /\ res.by = hist.invoked[1].pos
    /\ res.statusCode = GetResponse.statusCode
    /\ res.headers = GetResponse.headers
    /\ res.body = ""

C26_Witness ==
  /\ C26_HeadAnswered
  /\ res.sent = StringBody("tobi")
  /\ res.statusCode = 200
  /\ res.headers["Content-Length"] = StrVal("4")
  /\ res.headers["ETag"] = StrVal(StrongTag("tobi"))
  /\ GetResponse.body = "tobi"

\* C31: while a mounted sub-application handles the request, request and
\* response carry the prototypes of that sub-application; when it defers by
\* calling its final continuation, both prototypes are those of the
\* mounting application again before the next layer of the parent runs,
\* and that layer, or the finalizer, gets the error the sub-application
\* ended with, unchanged (none when it ended without one).
HandlerRunning == h.phase = "running" \/ d.phase = "running"

C31_Prototypes ==
  (HandlerRunning \/ h.phase = "done") =>
    /\ req.app = (IF h.phase = "done" THEN 1 ELSE h.app)
    /\ req.resApp = req.app

\* the error a sub-application's final continuation gets when the handler
\* completion `l` exhausts its stack
ExitError(l) == IF l.arg = SigRouter THEN Undef ELSE l.arg

C31_DeferStep ==
  Len(h'.up) < Len(h.up) =>
    LET e == ExitError(hist'.last)
        mode == IF d'.phase = "running" THEN d'.curMode ELSE h'.curMode
        err == IF d'.phase = "running" THEN d'.curErr ELSE h'.curErr
    IN /\ req'.app = h'.app /\ req'.resApp = h'.app
       /\ h'.app \in Ancestors(apps, h.app)
       /\ IF h'.phase = "done" THEN h'.doneArgs = <<e>>
          ELSE /\ h'.phase = "running" \/ d'.phase = "running"
               /\ IF Truthy(e) THEN mode = "error" /\ err = e
                  ELSE mode = "request" /\ err = Undef

C31_MountRestores == []C31_Prototypes /\ [][C31_DeferStep]_vars

\* the sub-application passed an error on and a handler of the mounting
\* application is running with it, under the parent's prototypes
C31_Witness ==
  /\ h.phase = "running" /\ h.app = 1 /\ h.curErr = "e1"
  /\ req.app = 1 /\ req.resApp = 1
  /\ hist.last.app = 2 /\ hist.last.called
  /\ \E i \in DOMAIN hist.invoked : hist.invoked[i].app = 2

\* C32 (as claimed): a Layer for '/' with non-terminal matching matches
\* every non-null path with no parameters and '' as path; a Layer for '*'
\* matches every non-null path, its parameter 0 the decoded whole path and
\* its path the whole path.
IsFastSlash(pattern) == pattern.segs = <<>> /\ ~pattern.end /\ ~pattern.star
WholeText(path) ==
  IF path.segs = <<>> THEN "/" ELSE TextOf(path.segs) \o Ending(path)
WholeDecoded(path) ==
  IF path.segs = <<>> THEN "/" ELSE DecodedTextOf(path.segs) \o Ending(path)

SlashMatched ==
  /\ matchLayer.ret = "true"
  /\ matchLayer.params = [defined |-> TRUE, map |-> <<>>]
  /\ matchLayer.path = ""

StarMatched ==
  /\ matchLayer.ret = "true"
  /\ matchLayer.params.defined
  /\ DOMAIN matchLayer.params.map = {"0"}
  /\ matchLayer.params.map["0"] = WholeDecoded(matchLayer.arg)
  /\ matchLayer.path = WholeText(matchLayer.arg)

C32_AsClaimed ==
  (matchLayer.ret # "none" /\ ~matchLayer.arg.null) =>
    /\ IsFastSlash(matchLayer.pattern) => SlashMatched
    /\ matchLayer.pattern.star => StarMatched

\* C32: a Layer for '/' with non-terminal matching matches every non-null
\* path with no parameters and '' as path; a Layer for '*' matches every
\* non-null path that can be percent-decoded, its parameter 0 the decoded
\* whole path and its path the whole path, and for a path with a malformed
\* escape its match() raises the decode error with status 400.
C32_FastPaths ==
  (matchLayer.ret # "none" /\ ~matchLayer.arg.null) =>
    /\ IsFastSlash(matchLayer.pattern) => SlashMatched
    /\ matchLayer.pattern.star =>
         IF WellEncoded(matchLayer.pattern, matchLayer.arg) THEN StarMatched
         ELSE /\ matchLayer.ret = "threw"
              /\ matchLayer.err.status = 400
              /\ matchLayer.err.statusCode = 400

\* '*' was given '/users/a%20b'
C32_Witness ==
  /\ matchLayer.pattern.star
  /\ matchLayer.arg = ReqPath(<<"users", "a%20b">>, FALSE)
  /\ matchLayer.params.map["0"] = "/users/a b"
  /\ matchLayer.path = "/users/a%20b"

\* '/' with end: false was given '/users/%zz/'
C32_WitnessSlash ==
  /\ IsFastSlash(matchLayer.pattern)
  /\ matchLayer.arg = ReqPath(<<"users", "%zz">>, TRUE)
  /\ matchLayer.path = ""

\* C33: when an error handler of a Route calls next() with no argument the
\* error is cleared: the handler that runs next is the first later layer
\* that is eligible for the method and is a request handler, run in normal
\* mode (error handlers between are skipped), and when there is none done
\* is called without an error.
ErrorHandlerCalledNext ==
  /\ hist.last.kind = "next" /\ hist.last.val = Undef
  /\ \E i \in DOMAIN hist.invoked :
        hist.invoked[i].pos = hist.last.pos /\ hist.invoked[i].mode = "error"

RequestLayersAfter(pos) ==
  {j \in DOMAIN routes[1].stack :
     /\ j > pos
     /\ routes[1].stack[j].method \in {Undef, d.method}
     /\ routes[1].stack[j].handle.length <= 3}

C33_ErrorCleared ==
  ErrorHandlerCalledNext =>
    LET later == RequestLayersAfter(hist.last.pos)
    IN IF later = {}
       THEN d.phase = "done" /\ d.doneArgs = <<Undef>>
       ELSE /\ d.phase = "running"
            /\ d.curMode = "request" /\ d.curErr = Undef
            /\ d.cur = CHOOSE j \in later : \A k \in later : j <= k

\* an error handler swallowed the error and the request handler after it
\* runs in normal mode
C33_Witness ==
  /\ ErrorHandlerCalledNext
  /\ d.phase = "running" /\ d.cur = hist.last.pos + 1
  /\ d.curMode = "request"

\* an error handler swallowed the error, the error handler after it was
\* skipped and done was called
C33_WitnessDone ==
  /\ ErrorHandlerCalledNext
  /\ d.phase = "done"
  /\ hist.last.pos < Len(routes[1].stack)
  /\ routes[1].stack[hist.last.pos + 1].handle.length = 4
  /\ routes[1].stack[hist.last.pos + 1].method = Undef

\* C34: when every handler Route.dispatch invokes eventually calls next,
\* throws or returns a promise that rejects, a dispatch that has begun
\* eventually calls done.
C34_DispatchEnds == (d.phase # "idle") ~> (d.phase = "done")

\* done was called after two handlers ran and a layer between was skipped
C34_Witness ==
  /\ d.phase = "done"
  /\ Len(hist.invoked) = 2
  /\ Len(routes[1].stack) = 3
  /\ Len(d.doneArgs) = 1

\* C35: each invoked handler completing in exactly one way (one call of
\* next, or a throw, or a rejected promise), one Route.dispatch invokes
\* every layer of the stack at most once and calls done at most once.
C35_AtMostOnce ==
  /\ \A i, j \in DOMAIN hist.invoked :
        hist.invoked[i].pos = hist.invoked[j].pos => i = j
  /\ \A i, j \in DOMAIN hist.offered :
        hist.offered[i].pos = hist.offered[j].pos => i = j
  /\ Len(d.doneArgs) <= 1
  /\ Len(hist.routeDone) <= 1

\* every layer of a full stack was invoked, then done was called
C35_Witness ==
  /\ Len(routes[1].stack) = MaxStack
  /\ Len(hist.invoked) = MaxStack
  /\ Len(d.doneArgs) = 1
  /\ \E i \in DOMAIN hist.invoked : hist.invoked[i].mode = "error"

\* C36: a set(k, v) call that raises leaves the settings store as it was:
\* k still holds its previous value and the companion k + ' fn' is still
\* the compilation of the value stored under k.
C36_FailedSetStep ==
  \A call \in SetCalls :
     (AppSet(1, call[1], call[2]) /\ raised' = "TypeError") =>
        /\ apps'[1].own = apps[1].own
        /\ apps'[1].own["etag fn"] = CompileETag(apps'[1].own["etag"])
        /\ apps'[1].own["query parser fn"] =
             CompileQueryParser(apps'[1].own["query parser"])

C36_FailedSetKeepsStore == [][C36_FailedSetStep]_vars

\* C37: an application has at most one root Router: the first operation
\* that needs it constructs it, with the case-sensitive and strict options
\* the two routing settings give at that moment, and every later use,
\* route, per-method, param or handle call works on that same Router, whose
\* options no later change of the settings alters.
C37_AtMostOne ==
  \A a \in AppIds :
     /\ router[a].made <= 1
     /\ router[a].exists <=> router[a].made = 1
     /\ ~router[a].exists => router[a].stack = <<>>

NeedsRouter ==
  \/ AppUse(1, NoPathArg, <<PlainArg(Fn("m", 3))>>)
  \/ AppRoute("/foo")
  \/ AppVerb("get", "/foo", <<Fn("h1", 3)>>)
  \/ AppParam("id")
  \/ AppHandle("GET", "/foo", FALSE)

C37_Step ==
  /\ router[1].exists =>
       /\ router'[1].exists
       /\ router'[1].made = router[1].made
       /\ router'[1].caseSensitive = router[1].caseSensitive
       /\ router'[1].strict = router[1].strict
       /\ Len(router'[1].stack) >= Len(router[1].stack)
       /\ SubSeq(router'[1].stack, 1, Len(router[1].stack)) = router[1].stack
  /\ (~router[1].exists /\ NeedsRouter) =>
       /\ router'[1].exists
       /\ router'[1].caseSensitive =
            (apps[1].own["case sensitive routing"] = JsTrue)
       /\ router'[1].strict = (apps[1].own["strict routing"] = JsTrue)
  /\ (~router[1].exists /\ ~NeedsRouter) => ~router'[1].exists

C37_OneRouter == []C37_AtMostOne /\ [][C37_Step]_vars

\* the Router was constructed case-sensitive, the setting was then turned
\* off, and two more registrations reached the Router
C37_Witness ==
  /\ router[1].exists /\ router[1].caseSensitive /\ ~router[1].strict
  /\ apps[1].own["case sensitive routing"] = JsFalse
  /\ apps[1].own["strict routing"] = JsTrue
  /\ Len(router[1].stack) = MaxRoutes

\* C38: Application.handle does not construct the root Router: on an
\* application without one it calls done() at once, before it touches the
\* prototypes of request and response, and the application still has no
\* Router afterwards.
C38_HandleStep ==
  (~router[1].exists /\ AppHandle("GET", "/foo", FALSE)) =>
     /\ ~router'[1].exists
     /\ h'.phase = "done" /\ h'.doneArgs = <<Undef>>
     /\ req'.app = 0 /\ req'.resApp = 0

C38_NoRouterCreated == [][C38_HandleStep]_vars

\* C39: after any sequence of match() calls on one Layer, calls that raise
\* a decode error included, params and path describe the latest call only:
\* both are defined exactly when that call returned true, so neither keeps
\* the captures of an earlier path nor a partly filled parameter set.
C39_DescribesLastCall ==
  matchLayer.ret # "none" =>
    /\ matchLayer.params.defined <=> matchLayer.ret = "true"
    /\ matchLayer.path # Undef <=> matchLayer.ret = "true"

\* the same for the calls that return: it holds when no call raises
C39_WhenReturned ==
  matchLayer.ret \in {"true", "false"} =>
    /\ matchLayer.params.defined <=> matchLayer.ret = "true"
    /\ matchLayer.path # Undef <=> matchLayer.ret = "true"

====
